---- MODULE Spec2Model ----
(***************************************************************************)
(* ResiSmart backend: the request pipeline (router, protect, authorize,    *)
(* validators), the resource handlers with their cache-aside reads and     *)
(* cache invalidation, and the filtered query engine (findWithFilter).     *)
(*                                                                         *)
(* One behaviour exercises the routes of one resource (etype); the User    *)
(* collection is always present because protect resolves the principal     *)
(* from it.  A request is one step: the router picks the first matching    *)
(* route, the middleware chain runs, then the handler, as in the source.   *)
(***************************************************************************)
EXTENDS Integers, Sequences, FiniteSets, TLC

\* ------------------------------------------------------------------ bounds
MaxId == 1        \* documents a behaviour may create per collection
MaxRev == 1       \* content revisions of one document
MaxParam == 2     \* numeric page/limit strings range over -1..MaxParam
MaxDocs == 3      \* documents in a paged collection
MaxDate == 2      \* schedule dates range over 0..MaxDate
MaxProcs == 2     \* handler invocations in flight at once

\* --------------------------------------------------------------- constants
DefaultPage == 1
DefaultLimit == 10

Tenants == {"tA", "tB"}
Resources == {"payment", "maintenance", "complaint", "announcement", "user", "property"}

\* Documents get the ids "1".."MaxId" in creation order; the seeded users
\* are "u1".."u3".
Ids == {ToString(i) : i \in 1..MaxId}
SeedUsers == {"u1", "u2", "u3"}
UserIds == SeedUsers \cup Ids
CollIds(res) == IF res = "user" THEN UserIds ELSE Ids

\* Creation order of an id (the default sort is -createdAt).
IdOrd(id) ==
    CASE id = "u1" -> -2
      [] id = "u2" -> -1
      [] id = "u3" -> 0
      [] OTHER -> CHOOSE i \in 1..(MaxId + MaxDocs) : ToString(i) = id

\* A schedule date of a request body: a timestamp, text that passes
\* isISO8601 but that new Date() cannot read (a week date), or no value.
Date(n) == [k |-> "date", v |-> n]
OddDate == [k |-> "odd", v |-> 0]
NoDate == [k |-> "absent", v |-> 0]

\* The schedule of a request body and of a stored document.
Form(startDate, endDate, isRecurring, recurrence) ==
    [startDate |-> startDate, endDate |-> endDate, isRecurring |-> isRecurring,
     recurrence |-> recurrence]

NoForm == Form(NoDate, NoDate, "absent", "absent")
\* A schedule every validator accepts.
PlainForm == Form(Date(0), Date(1), "absent", "absent")

NoDoc ==
    [id |-> "", tenant |-> "", role |-> "", rev |-> 0, isActive |-> FALSE,
     status |-> "", feedback |-> FALSE, views |-> <<>>, dangling |-> FALSE,
     schedule |-> NoForm, stamped |-> FALSE]

InitialStatus(res) ==
    CASE res = "complaint" -> "pending"
      [] res = "maintenance" -> "scheduled"
      [] res = "payment" -> "pending"
      [] OTHER -> ""

TerminalStatus(res) == IF res = "complaint" THEN "resolved" ELSE "completed"

NewDoc(res, id, tenant, role, dangling) ==
    [id |-> id, tenant |-> tenant, role |-> role, rev |-> 0, isActive |-> TRUE,
     status |-> InitialStatus(res), feedback |-> FALSE, views |-> <<>>,
     dangling |-> dangling, schedule |-> NoForm, stamped |-> FALSE]

SeedUser(id) ==
    CASE id = "u1" -> NewDoc("user", "u1", "tA", "admin", FALSE)
      [] id = "u2" -> NewDoc("user", "u2", "tA", "resident", FALSE)
      [] id = "u3" -> NewDoc("user", "u3", "tB", "admin", FALSE)
      [] OTHER -> NoDoc

\* ------------------------------------------------------------------- state
VARIABLES
    etype,      \* the resource whose router this behaviour exercises
    popStr,     \* what toString() of a populated reference yields in this build
    nestedGet,  \* what reading an unset nested path of a document yields
    db,         \* db[c][id]: the document store, collection c
    cache,      \* the Redis keyspace: a function from keys to cached responses
    flight      \* flight[p]: the handler invocation p, suspended at an await

vars == <<etype, popStr, nestedGet, db, cache, flight>>

\* ------------------------------------------------------- JavaScript numbers
Num(n) == [k |-> "num", v |-> n]
NaN == [k |-> "nan", v |-> 0]
PosInf == [k |-> "inf", v |-> 0]
JsonNull == [k |-> "null", v |-> 0]

\* A query-string parameter: absent, a numeric string, or other text.
Absent == [kind |-> "absent", v |-> 0]
IntStr(n) == [kind |-> "int", v |-> n]
TextStr == [kind |-> "text", v |-> 0]
ParamValues == {Absent, TextStr} \cup {IntStr(n) : n \in -1..MaxParam}

\* Number(x) and the implicit numeric coercion of the arithmetic operators.
ToNumber(p) == IF p.kind = "int" THEN Num(p.v) ELSE NaN

\* Destructuring default: `page = 1`, `limit = 10` apply only to undefined.
WithDefault(p, d) == IF p.kind = "absent" THEN Num(d) ELSE ToNumber(p)

JsSub1(a) == IF a.k = "num" THEN Num(a.v - 1) ELSE NaN
JsMul(a, b) == IF a.k = "num" /\ b.k = "num" THEN Num(a.v * b.v) ELSE NaN

\* Math.ceil(total / limit) for an integer total >= 0.
CeilDiv(total, l) ==
    CASE l.k # "num" -> NaN
      [] l.v = 0 -> IF total = 0 THEN NaN ELSE PosInf
      [] l.v > 0 -> Num((total + l.v - 1) \div l.v)
      [] OTHER -> Num(0 - (total \div (0 - l.v)))

\* JSON.stringify of a number: NaN and Infinity are written as null.
JsonNum(a) == IF a.k = "num" THEN a ELSE JsonNull

NoPagination == [page |-> JsonNull, limit |-> JsonNull, total |-> 0, totalPages |-> JsonNull]

\* ------------------------------------------------------------ query engine
RECURSIVE SortDesc(_)
SortDesc(S) ==
    IF S = {} THEN <<>>
    ELSE LET m == CHOOSE d \in S : \A e \in S : IdOrd(e.id) <= IdOrd(d.id)
         IN <<m>> \o SortDesc(S \ {m})

Min(a, b) == IF a < b THEN a ELSE b

\* cursor.skip(s).limit(l) of the store: limit 0 means no limit, a negative
\* limit is its absolute value.
Window(seq, s, l) ==
    LET n == IF l = 0 THEN Len(seq) ELSE IF l < 0 THEN 0 - l ELSE l
    IN SubSeq(seq, s + 1, Min(Len(seq), s + n))

\* The store rejects a skip or limit that is not a number and a negative skip.
FindRejects(skip, limit) == skip.k # "num" \/ limit.k # "num" \/ skip.v < 0

Docs(coll) == {coll[i] : i \in DOMAIN coll} \ {NoDoc}

Matching(coll, tenantFilter) ==
    {d \in Docs(coll) : tenantFilter = "" \/ d.tenant = tenantFilter}

findWithFilter(coll, page, limit, tenantFilter) ==
    LET pg == WithDefault(page, DefaultPage)
        lim == WithDefault(limit, DefaultLimit)
        skip == JsMul(JsSub1(pg), lim)
        found == Matching(coll, tenantFilter)
        total == Cardinality(found)
    IN IF FindRejects(skip, lim)
       THEN [ok |-> FALSE, items |-> <<>>, pagination |-> NoPagination]
       ELSE [ok |-> TRUE,
             items |-> Window(SortDesc(found), skip.v, lim.v),
             pagination |-> [page |-> pg, limit |-> lim, total |-> total,
                             totalPages |-> CeilDiv(total, lim)]]


\* ------------------------------------------------------------- cache layer
\* A key is the text before the first ':' (ns) and the text after it (rest).
Key(ns, rest) == [ns |-> ns, rest |-> rest]

\* A pattern of deleteCache: `ns:*`, or an exact key.
Glob(ns) == [glob |-> TRUE, ns |-> ns, rest |-> ""]
Exact(ns, rest) == [glob |-> FALSE, ns |-> ns, rest |-> rest]

PatternMatches(pat, key) ==
    IF pat.glob THEN key.ns = pat.ns ELSE key = Key(pat.ns, pat.rest)

\* Response bodies, all of one shape.
MkBody(success, kind, data, pagination) ==
    [success |-> success, kind |-> kind, data |-> data, pagination |-> pagination]

NoBody == MkBody(FALSE, "none", <<>>, NoPagination)
ErrBody(msg) == MkBody(FALSE, msg, <<>>, NoPagination)

\* res.json / JSON.stringify of a response: the numbers are JSON-encoded.
Wire(body) ==
    [body EXCEPT !.pagination =
        [page |-> JsonNum(body.pagination.page),
         limit |-> JsonNum(body.pagination.limit),
         total |-> body.pagination.total,
         totalPages |-> JsonNum(body.pagination.totalPages)]]

\* cf: the cache operations that throw during this request; each function
\* catches its own error.
NoCacheFault == {}
CacheDown == {"get", "set", "del"}

\* A getCache that answers from the store although the read threw.
getCacheNoCatch(c, key, cf) == IF key \notin DOMAIN c THEN NoBody ELSE c[key]

getCache(c, key, cf) ==
    IF "get" \in cf \/ key \notin DOMAIN c THEN NoBody ELSE c[key]

\* A setCache that drops the write (the faulty variant C5 is tested against).
setCacheLost(c, key, value, cf) == c

setCache(c, key, value, cf) ==
    IF "set" \in cf THEN c
    ELSE [k \in DOMAIN c \cup {key} |-> IF k = key THEN Wire(value) ELSE c[k]]

deleteCache(c, pat, cf) ==
    IF "del" \in cf THEN c
    ELSE [k \in {x \in DOMAIN c : ~PatternMatches(pat, x)} |-> c[k]]

ListNs(res) ==
    CASE res = "payment" -> "payments"
      [] res = "maintenance" -> "maintenance"
      [] res = "complaint" -> "complaints"
      [] res = "announcement" -> "announcements"
      [] res = "user" -> "users"
      [] OTHER -> "properties"

DetailNs(res) == res

ParamText(name, p) ==
    CASE p.kind = "absent" -> ""
      [] p.kind = "int" -> name \o "=" \o ToString(p.v) \o ";"
      [] OTHER -> name \o "=abc;"

\* JSON.stringify({ query, page, limit, sort, fields, ...filters }):
\* undefined members are left out.
QueryText(q) ==
    "{" \o ParamText("page", q.page) \o ParamText("limit", q.limit)
        \o (IF q.tenant = "" THEN "" ELSE "tenant=" \o q.tenant \o ";") \o "}"

ListKey(res, q) == Key(ListNs(res), QueryText(q))
DetailKey(res, seg) == Key(DetailNs(res), seg)
StatsKey(res, tenant) ==
    IF res = "property" THEN Key("property", "stats")
    ELSE Key(DetailNs(res), "stats:" \o tenant)
SearchKey(q) == Key("search", QueryText(q))

\* ------------------------------------------------------------------ router
Route(method, pat, roles, upload, validator, handler) ==
    [method |-> method, pat |-> pat, roles |-> roles, upload |-> upload,
     validator |-> validator, handler |-> handler]

NoRoute == Route("", <<>>, {}, FALSE, "", "notFound")

AdminManager == {"admin", "manager"}

paymentRoutes ==
    << Route("GET", <<>>, {}, FALSE, "", "getPayments"),
       Route("GET", <<":id">>, {}, FALSE, "", "getPayment"),
       Route("POST", <<>>, AdminManager, TRUE, "validatePayment", "createPayment"),
       Route("PATCH", <<":id", "status">>, AdminManager, FALSE, "", "updatePaymentStatus"),
       Route("GET", <<"stats">>, AdminManager, FALSE, "", "getPaymentStats") >>

maintenanceRoutes ==
    << Route("GET", <<>>, {}, FALSE, "", "getMaintenanceTasks"),
       Route("GET", <<":id">>, {}, FALSE, "", "getMaintenanceTask"),
       Route("POST", <<>>, AdminManager, TRUE, "validateMaintenance", "createMaintenanceTask"),
       Route("PATCH", <<":id", "status">>, AdminManager, FALSE, "", "updateMaintenanceStatus"),
       Route("GET", <<"stats">>, AdminManager, FALSE, "", "getMaintenanceStats") >>

announcementRoutes ==
    << Route("GET", <<>>, {}, FALSE, "", "getAnnouncements"),
       Route("GET", <<":id">>, {}, FALSE, "", "getAnnouncement"),
       Route("POST", <<>>, AdminManager, TRUE, "validateAnnouncement", "createAnnouncement"),
       Route("PUT", <<":id">>, AdminManager, TRUE, "validateAnnouncement", "updateAnnouncement"),
       Route("DELETE", <<":id">>, AdminManager, FALSE, "", "deleteAnnouncement"),
       Route("GET", <<"stats">>, AdminManager, FALSE, "", "getAnnouncementStats") >>

complaintRoutes ==
    << Route("GET", <<>>, {}, FALSE, "", "getComplaints"),
       Route("GET", <<":id">>, {}, FALSE, "", "getComplaint"),
       Route("POST", <<>>, {"resident"}, TRUE, "validateComplaint", "createComplaint"),
       Route("POST", <<":id", "feedback">>, {"resident"}, FALSE, "", "submitFeedback"),
       Route("PATCH", <<":id", "status">>, {"admin", "manager", "staff"}, FALSE, "",
             "updateComplaintStatus"),
       Route("POST", <<":id", "comments">>, {}, TRUE, "", "addComment"),
       Route("GET", <<"stats">>, AdminManager, FALSE, "", "getComplaintStats") >>

userRoutes ==
    << Route("GET", <<>>, AdminManager, FALSE, "", "getUsers"),
       Route("GET", <<"stats">>, AdminManager, FALSE, "", "getUserStats"),
       Route("GET", <<":id">>, AdminManager, FALSE, "", "getUser"),
       Route("POST", <<>>, AdminManager, TRUE, "validateUser", "createUser"),
       Route("PUT", <<":id">>, AdminManager, TRUE, "validateUser", "updateUser"),
       Route("DELETE", <<":id">>, AdminManager, FALSE, "", "deleteUser"),
       Route("PATCH", <<":id", "preferences">>, {}, FALSE, "", "updateUserPreferences") >>

propertyRoutes ==
    << Route("GET", <<>>, {}, FALSE, "", "getProperties"),
       Route("GET", <<"search">>, {}, FALSE, "", "searchProperties"),
       Route("GET", <<":id">>, {}, FALSE, "", "getProperty"),
       Route("GET", <<"stats">>, {"admin"}, FALSE, "", "getPropertyStats"),
       Route("POST", <<>>, {"admin", "property_manager"}, TRUE, "validateProperty",
             "createProperty"),
       Route("PUT", <<":id">>, {"admin", "property_manager"}, TRUE, "validateProperty",
             "updateProperty"),
       Route("DELETE", <<":id">>, {"admin"}, FALSE, "", "deleteProperty") >>

Routes(res) ==
    CASE res = "payment" -> paymentRoutes
      [] res = "maintenance" -> maintenanceRoutes
      [] res = "announcement" -> announcementRoutes
      [] res = "complaint" -> complaintRoutes
      [] res = "user" -> userRoutes
      [] OTHER -> propertyRoutes

\* A path pattern matches a path of the same length; ':id' matches any segment.
PathMatches(pat, segs) ==
    /\ Len(pat) = Len(segs)
    /\ \A i \in 1..Len(pat) : pat[i] = ":id" \/ pat[i] = segs[i]

RouteMatches(r, method, segs) == r.method = method /\ PathMatches(r.pat, segs)

\* Express runs the first route, in declaration order, that matches.
Dispatch(res, method, segs) ==
    LET t == Routes(res)
        hits == {i \in 1..Len(t) : RouteMatches(t[i], method, segs)}
    IN IF hits = {} THEN NoRoute
       ELSE t[CHOOSE i \in hits : \A j \in hits : i <= j]

\* ------------------------------------------------------ access control gate
Token(kind, uid) == [kind |-> kind, uid |-> uid]
BadTokens == {Token(k, "") : k \in {"absent", "malformed", "expired", "forged"}}
\* A validly signed token names a user id; the user need not be in the store.
GoodTokens == {Token("valid", u) : u \in UserIds}
Tokens == BadTokens \cup GoodTokens
\* The tokens of the seeded users, who are in the store in every state.
SeedTokens == {Token("valid", u) : u \in SeedUsers}

FindUser(users, uid) == IF uid \in DOMAIN users THEN users[uid] ELSE NoDoc

Verdict(stop, status, msg, user, ran) ==
    [stop |-> stop, status |-> status, msg |-> msg, user |-> user, ran |-> ran]

\* dbf: where the document store fails during this request.
protect(users, tok, dbf) ==
    CASE tok.kind = "absent" ->
            Verdict(TRUE, 401, "token-missing", NoDoc, {"protect"})
      [] tok.kind \in {"malformed", "expired", "forged"} ->
            Verdict(TRUE, 401, "token-invalid", NoDoc, {"protect"})
      [] OTHER ->
            IF dbf = "protect"
            THEN Verdict(TRUE, 401, "token-invalid", NoDoc, {"protect"})
            ELSE Verdict(FALSE, 0, "", FindUser(users, tok.uid), {"protect"})

\* A null req.user makes authorize throw; the error middleware answers 500.
authorize(roles, v) ==
    LET ran == v.ran \cup {"authorize"}
    IN CASE v.user = NoDoc -> Verdict(TRUE, 500, "server-error", NoDoc, ran)
         [] v.user.role \notin roles -> Verdict(TRUE, 403, "role-forbidden", v.user, ran)
         [] OTHER -> Verdict(FALSE, 0, "", v.user, ran)

\* new Date(a) <= new Date(b): false when either is an Invalid Date.
DateLE(a, b) == a.k = "date" /\ b.k = "date" /\ a.v <= b.v

\* A validateMaintenance without the custom rule on schedule.endDate (the
\* faulty variant C14 is tested against).
validateMaintenanceNoOrder(form) ==
    /\ form.startDate.k # "absent"
    /\ form.endDate.k # "absent"
    /\ form.recurrence \in {"absent", "daily", "weekly", "monthly", "quarterly", "yearly"}

\* The schedule rules of validateMaintenance.  A chain that starts with
\* optional() is skipped, custom rule included, when the field is absent.
validateMaintenance(form) ==
    /\ form.startDate.k # "absent"
    /\ form.endDate.k # "absent"
    /\ ~DateLE(form.endDate, form.startDate)
    /\ form.recurrence \in {"absent", "daily", "weekly", "monthly", "quarterly", "yearly"}

\* The schedule rules of validateAnnouncement.
validateAnnouncement(form) ==
    /\ form.endDate.k = "absent"
          \/ ~(form.startDate.k # "absent" /\ DateLE(form.endDate, form.startDate))
    /\ form.recurrence \in {"absent", "daily", "weekly", "monthly", "yearly"}

\* Whether the schedule of the body passes the validator of the route.
FormAccepted(validator, form) ==
    CASE validator = "validateMaintenance" -> validateMaintenance(form)
      [] validator = "validateAnnouncement" -> validateAnnouncement(form)
      [] OTHER -> TRUE

validate(valid, v) ==
    LET ran == v.ran \cup {"validate"}
    IN IF valid THEN Verdict(FALSE, 0, "", v.user, ran)
       ELSE Verdict(TRUE, 400, "validation", v.user, ran)

upload(v) == Verdict(FALSE, 0, "", v.user, v.ran \cup {"upload"})

\* The middleware chain of a route, up to the handler.
Pipeline(route, users, tok, dbf, valid) ==
    LET v1 == protect(users, tok, dbf)
        v2 == IF v1.stop \/ route.roles = {} THEN v1 ELSE authorize(route.roles, v1)
        v3 == IF v2.stop \/ ~route.upload THEN v2 ELSE upload(v2)
        v4 == IF v3.stop \/ route.validator = "" THEN v3 ELSE validate(valid, v3)
    IN v4


\* ------------------------------------------------------- handler outcomes
Query(page, limit, tenant) == [page |-> page, limit |-> limit, tenant |-> tenant]
NoQuery == Query(Absent, Absent, "")

\* What a handler did: the response, the collection and the cache it leaves,
\* and whether it answered from the cache, queried the store, sent mail.
\* error: what the response tells of the error caught. Every 500 of a handler
\* is its catch block's, which puts error.message in the body.
Out(status, body, coll, c, fromCache, read, mailed) ==
    [status |-> status, body |-> body, coll |-> coll, cache |-> c,
     fromCache |-> fromCache, read |-> read, mailed |-> mailed,
     error |-> IF status = 500 THEN "always" ELSE "none"]

\* The catch block of a handler (or an early return): nothing else changes.
Fail(status, msg, coll, c, read) == Out(status, ErrBody(msg), coll, c, FALSE, read, FALSE)

\* The app's error middleware, for an error thrown by a middleware: err.message
\* is in the body when NODE_ENV is development.
errorMiddleware(coll, c) ==
    [Fail(500, "server-error", coll, c, FALSE) EXCEPT !.error = "development"]

\* x.tenant.toString() !== req.user.tenant.toString() on a loaded document.
TenantDiffers(doc, user) == doc.tenant # user.tenant

\* The same comparison after .populate('tenant', ...): the left side is the
\* populated Tenant document, whose toString() is library code.
PopulatedTenantDiffers(doc, user) ==
    IF popStr = "id" THEN doc.tenant # user.tenant ELSE TRUE

DetailBody(doc) == MkBody(TRUE, "detail", <<doc>>, NoPagination)
MessageBody(msg) == MkBody(TRUE, msg, <<>>, NoPagination)

\* findById(req.params.id): a segment that is no ObjectId raises a CastError.
IsObjectId(coll, seg) == seg \in DOMAIN coll

\* getPayment / getMaintenanceTask / getComplaint / getUser.
DetailRead(res, coll, c, user, seg, dbf, cf) ==
    LET key == DetailKey(res, seg)
        hit == getCache(c, key, cf)
    IN CASE hit # NoBody -> Out(200, Wire(hit), coll, c, TRUE, FALSE, FALSE)
         [] dbf = "handler" \/ ~IsObjectId(coll, seg) ->
                Fail(500, "server-error", coll, c, TRUE)
         [] coll[seg] = NoDoc -> Fail(404, "not-found", coll, c, TRUE)
         [] user = NoDoc -> Fail(500, "server-error", coll, c, TRUE)
         [] PopulatedTenantDiffers(coll[seg], user) ->
                Fail(403, "tenant-forbidden", coll, c, TRUE)
         [] OTHER ->
                Out(200, Wire(DetailBody(coll[seg])), coll,
                    setCache(c, key, DetailBody(coll[seg]), cf), FALSE, TRUE, FALSE)

\* The tenant scope of a list: `tenant: req.user.tenant, ...filters`.
ListScope(res, user, q) ==
    IF q.tenant # "" THEN q.tenant
    ELSE IF res = "property" THEN "" ELSE user.tenant

\* getPayments / getMaintenanceTasks / getComplaints / getAnnouncements /
\* getUsers / getProperties.
ListRead(res, coll, c, user, q, dbf, cf) ==
    LET key == ListKey(res, q)
        hit == getCache(c, key, cf)
    IN CASE hit # NoBody -> Out(200, Wire(hit), coll, c, TRUE, FALSE, FALSE)
         [] res # "property" /\ user = NoDoc ->
                Fail(500, "server-error", coll, c, FALSE)
         [] dbf = "handler" -> Fail(500, "server-error", coll, c, TRUE)
         [] OTHER ->
                LET r == findWithFilter(coll, q.page, q.limit, ListScope(res, user, q))
                    body == MkBody(TRUE, "list", r.items, r.pagination)
                IN IF ~r.ok THEN Fail(500, "server-error", coll, c, TRUE)
                   ELSE Out(200, Wire(body), coll, setCache(c, key, body, cf),
                            FALSE, TRUE, FALSE)

\* deleteCache('<list>:*') then deleteCache('<detail>:<id>').
Invalidate(c, res, seg, cf) ==
    deleteCache(deleteCache(c, Glob(ListNs(res)), cf), Exact(DetailNs(res), seg), cf)

\* findById, the 404 return and the tenant check that open a by-id mutation.
\* 0: the handler goes on.
LoadStatus(coll, user, seg, dbf) ==
    CASE dbf = "handler" \/ ~IsObjectId(coll, seg) -> 500
      [] coll[seg] = NoDoc -> 404
      [] user = NoDoc -> 500
      [] TenantDiffers(coll[seg], user) -> 403
      [] OTHER -> 0

LoadMessage(status) ==
    CASE status = 404 -> "not-found"
      [] status = 403 -> "tenant-forbidden"
      [] OTHER -> "server-error"

Put(coll, id, doc) == [coll EXCEPT ![id] = doc]

\* The id of the next document of a collection; "" when the bound is reached.
FreeIds(coll) == {i \in Ids : coll[i] = NoDoc}
NextId(coll) ==
    IF FreeIds(coll) = {} THEN ""
    ELSE CHOOSE i \in FreeIds(coll) : \A j \in FreeIds(coll) : IdOrd(i) <= IdOrd(j)

\* The status enum of the schema, checked by save().
StatusInputs(res) == {TerminalStatus(res), "bogus"}

\* ------------------------------------------------------------ the request
\* A request: method and path below the router's mount point, query string,
\* token, validity of the body for the route's validator, the one body field
\* the handler reads (arg), and the faults that strike while it is served.
Req(method, segs, q, tok, valid, arg, dbf, cf) ==
    [method |-> method, segs |-> segs, q |-> q, tok |-> tok, valid |-> valid,
     arg |-> arg, dbf |-> dbf, cf |-> cf, form |-> PlainForm, agg |-> "label",
     st |-> ""]

\* The schema casts the schedule on create and save: a date it cannot read
\* is a CastError; the enum of recurrence is checked; isRecurring defaults
\* to false.
CastFails(res, form) ==
    \/ form.startDate.k = "odd"
    \/ form.endDate.k = "odd"
    \/ res = "announcement" /\ form.recurrence = "quarterly"

StoredForm(form) ==
    [form EXCEPT !.isRecurring = IF form.isRecurring = "absent" THEN "false"
                                 ELSE form.isRecurring]

\* ----------------------------------------------------------- handler bodies
\* Create: inject the tenant, persist, notify, drop the list caches.
StatusEnum(res) ==
    CASE res = "complaint" -> {"pending", "in_progress", "resolved", "closed"}
      [] res = "maintenance" -> {"scheduled", "in_progress", "completed", "cancelled"}
      [] OTHER -> {"pending", "in_progress", "completed", "failed"}

\* Model.create(req.body): a status in the body is stored as sent, and one
\* outside the schema's enum fails validation. st = "": the body has none.
WithBodyStatus(doc, st) == IF st = "" THEN doc ELSE [doc EXCEPT !.status = st]
StatusCastFails(res, st) == st # "" /\ st \notin StatusEnum(res)

CreatePlain(res, coll, c, user, st, dbf, cf) ==
    LET id == NextId(coll)
        doc == WithBodyStatus(
                   NewDoc(res, id, user.tenant, IF res = "user" THEN "resident" ELSE "",
                          FALSE), st)
    IN IF user = NoDoc \/ dbf = "handler" \/ id = ""
          \/ (res # "user" /\ StatusCastFails(res, st))
       THEN Fail(500, "server-error", coll, c, FALSE)
       ELSE Out(201, Wire(DetailBody(doc)), Put(coll, id, doc),
                deleteCache(c, Glob(ListNs(res)), cf), FALSE, FALSE, TRUE)

\* createMaintenanceTask: a task with an assignee looks the assignee up after
\* Maintenance.create and reads its email; assignee: "", "staff" or "missing".
createMaintenanceTaskBody(coll, c, user, assignee, form, st, dbf, cf) ==
    LET id == NextId(coll)
        doc == WithBodyStatus(
                   [NewDoc("maintenance", id, user.tenant, "", assignee = "missing")
                       EXCEPT !.schedule = StoredForm(form)], st)
    IN CASE user = NoDoc \/ dbf = "handler" \/ id = "" \/ CastFails("maintenance", form)
               \/ StatusCastFails("maintenance", st) ->
                Fail(500, "server-error", coll, c, FALSE)
         [] assignee = "missing" ->
                Fail(500, "server-error", Put(coll, id, doc), c, TRUE)
         [] OTHER ->
                Out(201, Wire(DetailBody(doc)), Put(coll, id, doc),
                    deleteCache(c, Glob(ListNs("maintenance")), cf), FALSE,
                    assignee # "", assignee # "")

\* createAnnouncement: after Announcement.create the handler calls User.find,
\* and User is not a binding of the announcement controller.
createAnnouncementBody(coll, c, user, form, dbf, cf) ==
    LET id == NextId(coll)
        doc == [NewDoc("announcement", id, user.tenant, "", FALSE)
                   EXCEPT !.schedule = StoredForm(form)]
    IN IF user = NoDoc \/ dbf = "handler" \/ id = "" \/ CastFails("announcement", form)
       THEN Fail(500, "server-error", coll, c, FALSE)
       ELSE Fail(500, "server-error", Put(coll, id, doc), c, FALSE)

\* createProperty: Property.create(req.body); the tenant is the body's.
createPropertyBody(coll, c, bodyTenant, dbf, cf) ==
    LET id == NextId(coll)
        doc == NewDoc("property", id, bodyTenant, "", FALSE)
    IN IF dbf = "handler" \/ id = "" \/ bodyTenant = ""
       THEN Fail(500, "server-error", coll, c, FALSE)
       ELSE Out(201, Wire(DetailBody(doc)), Put(coll, id, doc),
                deleteCache(c, Glob(ListNs("property")), cf), FALSE, FALSE, TRUE)

\* Status change: load, tenant check, set the status, save, notify,
\* drop the list caches and the detail key.
StatusUpdate(res, coll, c, user, seg, st, dbf, cf) ==
    LET code == LoadStatus(coll, user, seg, dbf)
        doc == [coll[seg] EXCEPT !.status = st,
                                 !.stamped = @ \/ st = TerminalStatus(res)]
    IN CASE code # 0 -> Fail(code, LoadMessage(code), coll, c, TRUE)
         [] st \notin StatusEnum(res) -> Fail(500, "server-error", coll, c, TRUE)
         [] res = "maintenance" /\ doc.dangling ->
                Fail(500, "server-error", Put(coll, seg, doc), c, TRUE)
         [] OTHER -> Out(200, Wire(DetailBody(doc)), Put(coll, seg, doc),
                         Invalidate(c, res, seg, cf), FALSE, TRUE, TRUE)

\* The fields of req.body a handler copies onto the document: a tenant
\* when the body carries one, else other content.
\* role: enum of userSchema.
RoleEnum == {"admin", "manager", "staff", "resident"}

Assign(doc, bodyTenant) ==
    CASE bodyTenant = "" -> [doc EXCEPT !.rev = doc.rev + 1]
      [] bodyTenant \in RoleEnum -> [doc EXCEPT !.role = bodyTenant]
      [] OTHER -> [doc EXCEPT !.tenant = bodyTenant]

\* updateUser: load, tenant check, copy every body key, save, notify,
\* invalidate.
updateUserBody(coll, c, user, seg, bodyTenant, dbf, cf) ==
    LET code == LoadStatus(coll, user, seg, dbf)
        doc == Assign(coll[seg], bodyTenant)
    IN IF code # 0 THEN Fail(code, LoadMessage(code), coll, c, TRUE)
       ELSE Out(200, Wire(DetailBody(doc)), Put(coll, seg, doc),
                Invalidate(c, "user", seg, cf), FALSE, TRUE, TRUE)

\* deleteUser: load, tenant check, isActive = false, save, notify, invalidate.
deleteUserBody(coll, c, user, seg, dbf, cf) ==
    LET code == LoadStatus(coll, user, seg, dbf)
        doc == [coll[seg] EXCEPT !.isActive = FALSE]
    IN IF code # 0 THEN Fail(code, LoadMessage(code), coll, c, TRUE)
       ELSE Out(200, Wire(MessageBody("deleted")), Put(coll, seg, doc),
                Invalidate(c, "user", seg, cf), FALSE, TRUE, TRUE)

\* updateUserPreferences: only the user itself; drops the detail key only.
updateUserPreferencesBody(coll, c, user, seg, dbf, cf) ==
    LET doc == [coll[seg] EXCEPT !.rev = coll[seg].rev + 1]
    IN CASE dbf = "handler" \/ ~IsObjectId(coll, seg) ->
                Fail(500, "server-error", coll, c, TRUE)
         [] coll[seg] = NoDoc -> Fail(404, "not-found", coll, c, TRUE)
         [] user = NoDoc -> Fail(500, "server-error", coll, c, TRUE)
         [] coll[seg].id # user.id -> Fail(403, "not-self", coll, c, TRUE)
         [] OTHER -> Out(200, Wire(DetailBody(doc)), Put(coll, seg, doc),
                         deleteCache(c, Exact("user", seg), cf), FALSE, TRUE, FALSE)

\* The statistics aggregations. The $project stage builds each distribution
\* with $reduce over the labels $group pushed, merging into the value
\*   { ['$$this']: { $add: [{ $indexOfArray: [labels, '$$this'] }, 1] } }.
\* agg is what the database makes of the key '$$this' of that object:
\* "rejected", it is no expression operator and the pipeline is refused; or
\* "label", it names the label at hand.
AggReadings == {"rejected", "label"}

\* The label the distribution is over: $role of users, $status of tasks.
LabelOf(res, doc) == IF res = "user" THEN doc.role ELSE doc.status

\* $match { tenant, isActive: true }, then $group { $push: label }.
RECURSIVE Pushed(_, _, _, _)
Pushed(res, coll, tenant, n) ==
    IF n > MaxId + MaxDocs THEN <<>>
    ELSE LET here == {d \in Matching(coll, tenant) : d.isActive /\ IdOrd(d.id) = n}
         IN  (IF here = {} THEN <<>> ELSE <<LabelOf(res, CHOOSE d \in here : TRUE)>>)
                 \o Pushed(res, coll, tenant, n + 1)

\* $indexOfArray: the index from 0 of the first occurrence.
IndexOfArray(arr, x) ==
    IF \A i \in DOMAIN arr : arr[i] # x THEN -1
    ELSE (CHOOSE i \in DOMAIN arr : arr[i] = x /\ \A j \in 1..(i - 1) : arr[j] # x) - 1

MergeObjects(value, key, v) ==
    [k \in DOMAIN value \cup {key} |-> IF k = key THEN v ELSE value[k]]

\* $reduce { input, initialValue: {}, in: $mergeObjects [...] }.
RECURSIVE Reduce(_, _, _)
Reduce(input, arr, value) ==
    IF input = <<>> THEN value
    ELSE Reduce(Tail(input), arr,
                MergeObjects(value, Head(input), IndexOfArray(arr, Head(input)) + 1))

EmptyObject == [k \in {} |-> 0]

\* stats[0] || the handler's default, as the response body.
StatsBody(labels) ==
    [success |-> TRUE, kind |-> "stats", data |-> <<>>,
     pagination |-> [NoPagination EXCEPT !.total = Len(labels)],
     distribution |-> Reduce(labels, labels, EmptyObject)]

\* A statistics handler: cache-aside over the aggregation of its model.
StatsHandler(res, coll, c, user, agg, dbf, cf) ==
    LET key == StatsKey(res, user.tenant)
        hit == getCache(c, key, cf)
        body == StatsBody(Pushed(res, coll, user.tenant, IdOrd("u1")))
    IN CASE hit # NoBody -> Out(200, Wire(hit), coll, c, TRUE, FALSE, FALSE)
         [] dbf = "handler" \/ agg = "rejected" ->
                Fail(500, "server-error", coll, c, TRUE)
         [] OTHER -> Out(200, Wire(body), coll, setCache(c, key, body, cf),
                         FALSE, TRUE, FALSE)

getUserStatsBody(coll, c, user, agg, dbf, cf) ==
    StatsHandler("user", coll, c, user, agg, dbf, cf)

getMaintenanceStatsBody(coll, c, user, agg, dbf, cf) ==
    StatsHandler("maintenance", coll, c, user, agg, dbf, cf)


\* getAnnouncement: as the other detail reads, and a miss records the view.
\* announcement.views.some(view => view.user.toString() === req.user._id.toString())
\* with views.user populated.
hasViewed(views, user) ==
    popStr = "id" /\ \E i \in DOMAIN views : views[i] = user.id

\* The loaded announcement after views.push({ user, viewedAt }) where due.
Viewed(doc, user) ==
    IF hasViewed(doc.views, user) THEN doc
    ELSE [doc EXCEPT !.views = Append(doc.views, user.id)]

getAnnouncementBody(coll, c, user, seg, dbf, cf) ==
    LET key == DetailKey("announcement", seg)
        hit == getCache(c, key, cf)
        doc == Viewed(coll[seg], user)
    IN CASE hit # NoBody -> Out(200, Wire(hit), coll, c, TRUE, FALSE, FALSE)
         [] dbf = "handler" \/ ~IsObjectId(coll, seg) ->
                Fail(500, "server-error", coll, c, TRUE)
         [] coll[seg] = NoDoc -> Fail(404, "not-found", coll, c, TRUE)
         [] user = NoDoc -> Fail(500, "server-error", coll, c, TRUE)
         [] PopulatedTenantDiffers(coll[seg], user) ->
                Fail(403, "tenant-forbidden", coll, c, TRUE)
         [] OTHER ->
                Out(200, Wire(DetailBody(doc)), Put(coll, seg, doc),
                    setCache(c, key, DetailBody(doc), cf), FALSE, TRUE, FALSE)

\* updateAnnouncement: load, tenant check, Object.assign, save; then
\* User.find, which is not a binding of the announcement controller.
updateAnnouncementBody(coll, c, user, seg, bodyTenant, form, dbf, cf) ==
    LET code == LoadStatus(coll, user, seg, dbf)
        doc == [Assign(coll[seg], bodyTenant) EXCEPT !.schedule = StoredForm(form)]
    IN CASE code # 0 -> Fail(code, LoadMessage(code), coll, c, TRUE)
         [] CastFails("announcement", form) -> Fail(500, "server-error", coll, c, TRUE)
         [] OTHER -> Fail(500, "server-error", Put(coll, seg, doc), c, TRUE)

\* deleteAnnouncement: load, tenant check, isActive = false, save; then
\* User.find as above.
deleteAnnouncementBody(coll, c, user, seg, dbf, cf) ==
    LET code == LoadStatus(coll, user, seg, dbf)
    IN IF code # 0 THEN Fail(code, LoadMessage(code), coll, c, TRUE)
       ELSE Fail(500, "server-error",
                 Put(coll, seg, [coll[seg] EXCEPT !.isActive = FALSE]), c, TRUE)

\* addComment: load, tenant check, push the comment, save, notify;
\* drops the detail key only.
addCommentBody(coll, c, user, seg, dbf, cf) ==
    LET code == LoadStatus(coll, user, seg, dbf)
        doc == [coll[seg] EXCEPT !.rev = coll[seg].rev + 1]
    IN IF code # 0 THEN Fail(code, LoadMessage(code), coll, c, TRUE)
       ELSE Out(200, Wire(DetailBody(doc)), Put(coll, seg, doc),
                deleteCache(c, Exact("complaint", seg), cf), FALSE, TRUE, TRUE)

\* `if (complaint.feedback)`: feedback is a nested path of the schema, not a
\* field; the getter of an unset nested path is library code.
HasFeedback(doc) == IF nestedGet = "object" THEN TRUE ELSE doc.feedback

\* A submitFeedback that stores the feedback without its two precondition
\* checks (the faulty variant C13 is tested against).
submitFeedbackUnchecked(coll, c, user, seg, dbf, cf) ==
    LET code == LoadStatus(coll, user, seg, dbf)
    IN IF code # 0 THEN Fail(code, LoadMessage(code), coll, c, TRUE)
       ELSE Out(200, Wire(DetailBody([coll[seg] EXCEPT !.feedback = TRUE])),
                Put(coll, seg, [coll[seg] EXCEPT !.feedback = TRUE]),
                Invalidate(c, "complaint", seg, cf), FALSE, TRUE, TRUE)

\* submitFeedback: only on a resolved complaint that has no feedback yet.
submitFeedbackBody(coll, c, user, seg, dbf, cf) ==
    LET code == LoadStatus(coll, user, seg, dbf)
        doc == [coll[seg] EXCEPT !.feedback = TRUE]
    IN CASE code # 0 -> Fail(code, LoadMessage(code), coll, c, TRUE)
         [] coll[seg].status # "resolved" -> Fail(400, "not-resolved", coll, c, TRUE)
         [] HasFeedback(coll[seg]) -> Fail(400, "feedback-exists", coll, c, TRUE)
         [] OTHER -> Out(200, Wire(DetailBody(doc)), Put(coll, seg, doc),
                         Invalidate(c, "complaint", seg, cf), FALSE, TRUE, TRUE)

\* getProperty: no tenant check.
getPropertyBody(coll, c, seg, dbf, cf) ==
    LET key == DetailKey("property", seg)
        hit == getCache(c, key, cf)
    IN CASE hit # NoBody -> Out(200, Wire(hit), coll, c, TRUE, FALSE, FALSE)
         [] dbf = "handler" \/ ~IsObjectId(coll, seg) ->
                Fail(500, "server-error", coll, c, TRUE)
         [] coll[seg] = NoDoc -> Fail(404, "not-found", coll, c, TRUE)
         [] OTHER ->
                Out(200, Wire(DetailBody(coll[seg])), coll,
                    setCache(c, key, DetailBody(coll[seg]), cf), FALSE, TRUE, FALSE)

\* updateProperty / deleteProperty: findByIdAndUpdate(req.params.id, change).
PropertyUpdate(coll, c, seg, doc, dbf, cf) ==
    CASE dbf = "handler" \/ ~IsObjectId(coll, seg) ->
            Fail(500, "server-error", coll, c, TRUE)
      [] coll[seg] = NoDoc -> Fail(404, "not-found", coll, c, TRUE)
      [] OTHER -> Out(200, Wire(DetailBody(doc)), Put(coll, seg, doc),
                      Invalidate(c, "property", seg, cf), FALSE, TRUE, TRUE)

updatePropertyBody(coll, c, seg, bodyTenant, dbf, cf) ==
    PropertyUpdate(coll, c, seg,
                   IF IsObjectId(coll, seg) THEN Assign(coll[seg], bodyTenant) ELSE NoDoc,
                   dbf, cf)

deletePropertyBody(coll, c, seg, dbf, cf) ==
    PropertyUpdate(coll, c, seg,
                   IF IsObjectId(coll, seg) THEN [coll[seg] EXCEPT !.isActive = FALSE]
                   ELSE NoDoc,
                   dbf, cf)

\* searchProperties: the active properties of every tenant, paged.
searchPropertiesBody(coll, c, q, dbf, cf) ==
    LET key == SearchKey(q)
        hit == getCache(c, key, cf)
        pg == WithDefault(q.page, DefaultPage)
        lim == WithDefault(q.limit, DefaultLimit)
        skip == JsMul(JsSub1(pg), lim)
        found == {d \in Docs(coll) : d.isActive}
        body == MkBody(TRUE, "list", Window(SortDesc(found), skip.v, lim.v),
                       [page |-> pg, limit |-> lim, total |-> Cardinality(found),
                        totalPages |-> CeilDiv(Cardinality(found), lim)])
    IN CASE hit # NoBody -> Out(200, Wire(hit), coll, c, TRUE, FALSE, FALSE)
         [] dbf = "handler" \/ FindRejects(skip, lim) ->
                Fail(500, "server-error", coll, c, TRUE)
         [] OTHER -> Out(200, Wire(body), coll, setCache(c, key, body, cf),
                         FALSE, TRUE, FALSE)

\* The body of the handler a route names.
Handler(name, coll, c, user, r) ==
    CASE name \in {"getPayments", "getMaintenanceTasks", "getComplaints",
                   "getAnnouncements", "getUsers", "getProperties"} ->
            ListRead(etype, coll, c, user, r.q, r.dbf, r.cf)
      [] name \in {"getPayment", "getMaintenanceTask", "getComplaint", "getUser"} ->
            DetailRead(etype, coll, c, user, r.segs[1], r.dbf, r.cf)
      [] name \in {"createPayment", "createComplaint", "createUser"} ->
            CreatePlain(etype, coll, c, user, r.st, r.dbf, r.cf)
      [] name \in {"updatePaymentStatus", "updateComplaintStatus",
                   "updateMaintenanceStatus"} ->
            StatusUpdate(etype, coll, c, user, r.segs[1], r.arg, r.dbf, r.cf)
      [] name = "createMaintenanceTask" ->
            createMaintenanceTaskBody(coll, c, user, r.arg, r.form, r.st, r.dbf, r.cf)
      [] name = "getAnnouncement" ->
            getAnnouncementBody(coll, c, user, r.segs[1], r.dbf, r.cf)
      [] name = "createAnnouncement" ->
            createAnnouncementBody(coll, c, user, r.form, r.dbf, r.cf)
      [] name = "updateAnnouncement" ->
            updateAnnouncementBody(coll, c, user, r.segs[1], r.arg, r.form, r.dbf, r.cf)
      [] name = "deleteAnnouncement" ->
            deleteAnnouncementBody(coll, c, user, r.segs[1], r.dbf, r.cf)
      [] name = "addComment" ->
            addCommentBody(coll, c, user, r.segs[1], r.dbf, r.cf)
      [] name = "submitFeedback" ->
            submitFeedbackBody(coll, c, user, r.segs[1], r.dbf, r.cf)
      [] name = "updateUser" ->
            updateUserBody(coll, c, user, r.segs[1], r.arg, r.dbf, r.cf)
      [] name = "deleteUser" ->
            deleteUserBody(coll, c, user, r.segs[1], r.dbf, r.cf)
      [] name = "updateUserPreferences" ->
            updateUserPreferencesBody(coll, c, user, r.segs[1], r.dbf, r.cf)
      [] name = "getUserStats" ->
            getUserStatsBody(coll, c, user, r.agg, r.dbf, r.cf)
      [] name = "getMaintenanceStats" ->
            getMaintenanceStatsBody(coll, c, user, r.agg, r.dbf, r.cf)
      [] name = "getProperty" ->
            getPropertyBody(coll, c, r.segs[1], r.dbf, r.cf)
      [] name = "createProperty" ->
            createPropertyBody(coll, c, r.arg, r.dbf, r.cf)
      [] name = "updateProperty" ->
            updatePropertyBody(coll, c, r.segs[1], r.arg, r.dbf, r.cf)
      [] name = "deleteProperty" ->
            deletePropertyBody(coll, c, r.segs[1], r.dbf, r.cf)
      [] name = "searchProperties" ->
            searchPropertiesBody(coll, c, r.q, r.dbf, r.cf)
      [] OTHER -> Fail(404, "no-route", coll, c, FALSE)

\* The response and the effects of one request, given its route and the
\* verdict v of the middleware chain.
Served(route, v, d, c, r) ==
    [handler |-> route.handler, roles |-> route.roles, user |-> v.user,
     ran |-> IF v.stop THEN v.ran ELSE v.ran \cup {"handler"},
     out |-> CASE v.stop /\ v.status = 500 -> errorMiddleware(d[etype], c)
               [] v.stop -> Fail(v.status, v.msg, d[etype], c, FALSE)
               [] OTHER -> Handler(route.handler, d[etype], c, v.user, r)]

Routed(route, d, c, r) ==
    Served(route,
           Pipeline(route, d["user"], r.tok, r.dbf,
                    r.valid /\ FormAccepted(route.validator, r.form)),
           d, c, r)

\* One request served on store d and cache c: the route, the middleware
\* chain, then the handler.
Run(d, c, r) == Routed(Dispatch(etype, r.method, r.segs), d, c, r)

\* The store and the cache after a request.
DbAfter(d, x) == [d EXCEPT ![etype] = x.out.coll]
Commit(x) == db' = DbAfter(db, x) /\ cache' = x.out.cache

\* The program serves request r, which its router gives to `handler`.
Serve(handler, r) ==
    /\ Dispatch(etype, r.method, r.segs).handler = handler
    /\ Commit(Run(db, cache, r))
    /\ UNCHANGED <<etype, popStr, nestedGet, flight>>

\* --------------------------------------------------------- authentication
\* The email of a user, unique by the schema; NewEmail is in no store.
Email(id) == id \o "@x.com"
NewEmail == "a@x.com"
Emails == {Email(id) : id \in SeedUsers} \cup {NewEmail}
Passwords == {"secret1", "wrong77", "12345"}

AuthReq(email, password, dbf) == [email |-> email, password |-> password, dbf |-> dbf]

\* User.findOne({ email }).
findOneByEmail(users, email) ==
    LET found == {d \in Docs(users) : Email(d.id) = email}
    IN  IF found = {} THEN NoDoc ELSE CHOOSE d \in found : TRUE

\* The paths userSchema requires, the fields register hands to User.create,
\* and the instance methods the schema defines.
RequiredPaths == {"tenant", "name", "email", "password"}
RegisterFields == {"username", "email", "password", "role", "propertyId"}
SchemaMethods == {"matchPassword"}

\* register: 400 for a known email; else User.create of the five fields,
\* which the schema validates before anything is saved.
registerBody(users, c, a) ==
    CASE a.dbf = "handler" -> Fail(500, "server-error", users, c, TRUE)
      [] findOneByEmail(users, a.email) # NoDoc -> Fail(400, "email-taken", users, c, TRUE)
      [] ~(RequiredPaths \subseteq RegisterFields) ->
            Fail(500, "server-error", users, c, TRUE)
      [] a.password = "12345" -> Fail(500, "server-error", users, c, TRUE)
      [] OTHER -> Out(201, MessageBody("token"), Put(users, NextId(users),
                          NewDoc("user", NextId(users), "", "resident", FALSE)),
                      c, FALSE, TRUE, FALSE)

\* login: 401 for an unknown email; else user.comparePassword(password).
loginBody(users, c, a) ==
    CASE a.dbf = "handler" -> Fail(500, "server-error", users, c, TRUE)
      [] findOneByEmail(users, a.email) = NoDoc ->
            Fail(401, "Email atau password salah.", users, c, TRUE)
      [] "comparePassword" \notin SchemaMethods ->
            Fail(500, "server-error", users, c, TRUE)
      [] a.password # "secret1" ->
            Fail(401, "Email atau password salah.", users, c, TRUE)
      [] OTHER -> Out(200, MessageBody("token"), users, c, FALSE, TRUE, FALSE)

\* ------------------------------------------------------------ concurrency
\* Handlers are async functions: at each await the event loop may run the
\* steps of another request. flight[p] holds what invocation p keeps in its
\* local variables across its awaits.
Procs == 1..MaxProcs

Flight(pc, r, snap, status, lost) ==
    [pc |-> pc, r |-> r, snap |-> snap, status |-> status, lost |-> lost]

Idle == Flight("idle", NoQuery, NoDoc, 0, FALSE)
Grounded == [p \in Procs |-> Idle]

\* ------------------------------------------------------------ the requests
\* The faults of one request: none, the cache unreachable, the store failing
\* while protect resolves the principal, the store failing in the handler.
Faults ==
    {<<"none", NoCacheFault>>, <<"none", CacheDown>>,
     <<"protect", NoCacheFault>>, <<"handler", NoCacheFault>>}

Segments == Ids \cup {"stats"} \cup (IF etype = "property" THEN {"search"} ELSE {})
TenantFilters == Tenants \cup {""}
Queries == {Query(Absent, Absent, t) : t \in TenantFilters}

\* The values of the body field a handler reads.
Args(method, segs) ==
    CASE Len(segs) = 2 /\ segs[2] = "status" -> StatusInputs(etype)
      [] method = "POST" /\ segs = <<>> /\ etype = "maintenance" -> {"", "staff", "missing"}
      [] method = "POST" /\ segs = <<>> /\ etype = "property" -> {"", "tA", "tB"}
      [] method = "PUT" -> {"", "tB"}
      [] OTHER -> {""}

\* Whether the body can fail validation: only where a validator is mounted.
Valids(method, segs) ==
    IF Dispatch(etype, method, segs).validator = "" THEN {TRUE} ELSE BOOLEAN

Reqs(method, paths, queries, toks, faults) ==
    UNION {{Req(method, segs, q, tok, valid, arg, f[1], f[2]) :
                q \in queries, tok \in toks, valid \in Valids(method, segs),
                arg \in Args(method, segs), f \in faults} : segs \in paths}

ItemPaths == {<<seg>> : seg \in Segments}
SubPaths(sub) == {<<seg, sub>> : seg \in Segments}

\* The requests the behaviours are built from: those that can change the
\* store or the cache.  A request the gate rejects, or one that meets a
\* store failure, changes neither.
CacheFaults == {<<"none", NoCacheFault>>, <<"none", CacheDown>>}

StatsReqs(faults) ==
    {[r EXCEPT !.agg = a] :
        r \in Reqs("GET", {<<"stats">>}, {NoQuery}, GoodTokens, faults), a \in AggReadings}
ListReqs == Reqs("GET", {<<>>}, {NoQuery}, GoodTokens, CacheFaults)
DetailReqs == Reqs("GET", ItemPaths, {NoQuery}, GoodTokens, CacheFaults)
CreateReqs == Reqs("POST", {<<>>}, {NoQuery}, GoodTokens, CacheFaults)
ItemReqs(method) == Reqs(method, ItemPaths, {NoQuery}, GoodTokens, CacheFaults)
SubReqs(method, sub) == Reqs(method, SubPaths(sub), {NoQuery}, GoodTokens, CacheFaults)

\* The bounds of the model: a create needs a free id; a content change
\* needs a revision below MaxRev.
BumpsRev(r) ==
    \/ r.method = "PUT" /\ r.arg = ""
    \/ Len(r.segs) = 2 /\ r.segs[2] \in {"preferences", "comments"}

InBounds(d, r) ==
    /\ (r.method = "POST" /\ r.segs = <<>>) => NextId(d[etype]) # ""
    /\ (BumpsRev(r) /\ IsObjectId(d[etype], r.segs[1])) => d[etype][r.segs[1]].rev < MaxRev

\* ---------------------------------------------------------------- handlers
getPayments(r) == InBounds(db, r) /\ Serve("getPayments", r)

getPayment(r) == InBounds(db, r) /\ Serve("getPayment", r)

createPayment(r) == InBounds(db, r) /\ Serve("createPayment", r)

updatePaymentStatus(r) == InBounds(db, r) /\ Serve("updatePaymentStatus", r)

getMaintenanceTasks(r) == InBounds(db, r) /\ Serve("getMaintenanceTasks", r)

getMaintenanceTask(r) == InBounds(db, r) /\ Serve("getMaintenanceTask", r)

createMaintenanceTask(r) == InBounds(db, r) /\ Serve("createMaintenanceTask", r)

updateMaintenanceStatus(r) == InBounds(db, r) /\ Serve("updateMaintenanceStatus", r)

getAnnouncements(r) == InBounds(db, r) /\ Serve("getAnnouncements", r)

getAnnouncement(r) == InBounds(db, r) /\ Serve("getAnnouncement", r)

createAnnouncement(r) == InBounds(db, r) /\ Serve("createAnnouncement", r)

updateAnnouncement(r) == InBounds(db, r) /\ Serve("updateAnnouncement", r)

deleteAnnouncement(r) == InBounds(db, r) /\ Serve("deleteAnnouncement", r)

getComplaints(r) == InBounds(db, r) /\ Serve("getComplaints", r)

getComplaint(r) == InBounds(db, r) /\ Serve("getComplaint", r)

createComplaint(r) == InBounds(db, r) /\ Serve("createComplaint", r)

updateComplaintStatus(r) == InBounds(db, r) /\ Serve("updateComplaintStatus", r)

addComment(r) == InBounds(db, r) /\ Serve("addComment", r)

submitFeedback(r) == InBounds(db, r) /\ Serve("submitFeedback", r)

getUsers(r) == InBounds(db, r) /\ Serve("getUsers", r)

getUser(r) == InBounds(db, r) /\ Serve("getUser", r)

getUserStats(r) == InBounds(db, r) /\ Serve("getUserStats", r)

createUser(r) == InBounds(db, r) /\ Serve("createUser", r)

updateUser(r) == InBounds(db, r) /\ Serve("updateUser", r)

deleteUser(r) == InBounds(db, r) /\ Serve("deleteUser", r)

updateUserPreferences(r) == InBounds(db, r) /\ Serve("updateUserPreferences", r)

getProperties(r) == InBounds(db, r) /\ Serve("getProperties", r)

getProperty(r) == InBounds(db, r) /\ Serve("getProperty", r)

searchProperties(r) == InBounds(db, r) /\ Serve("searchProperties", r)

createProperty(r) == InBounds(db, r) /\ Serve("createProperty", r)

updateProperty(r) == InBounds(db, r) /\ Serve("updateProperty", r)

deleteProperty(r) == InBounds(db, r) /\ Serve("deleteProperty", r)

\* A request no route of the router matches.
notFound(r) == InBounds(db, r) /\ Serve("notFound", r)

AuthReqs == {AuthReq(e, pw, f) : e \in Emails, pw \in Passwords, f \in {"none", "handler"}}

register(a) ==
    /\ db' = [db EXCEPT !["user"] = registerBody(db["user"], cache, a).coll]
    /\ UNCHANGED <<etype, popStr, nestedGet, cache, flight>>

login(a) ==
    /\ db' = [db EXCEPT !["user"] = loginBody(db["user"], cache, a).coll]
    /\ UNCHANGED <<etype, popStr, nestedGet, cache, flight>>

\* ------------------------------------------------------------- environment
\* The readings of an unset nested path: undefined, or an empty object.
\* Only the complaint schema's feedback is read that way.
NestedGets(res) == IF res = "complaint" THEN {"value", "object"} ELSE {"value"}

\* A key reaches its TTL.
Expire(key) ==
    /\ key \in DOMAIN cache
    /\ cache' = [k \in DOMAIN cache \ {key} |-> cache[k]]
    /\ UNCHANGED <<etype, popStr, nestedGet, db, flight>>

Init ==
    /\ etype \in Resources
    /\ popStr \in {"id", "inspect"}
    /\ nestedGet \in NestedGets(etype)
    /\ db = [c \in Resources |->
                [id \in CollIds(c) |-> IF c = "user" THEN SeedUser(id) ELSE NoDoc]]
    /\ cache = [k \in {} |-> NoBody]
    /\ flight = Grounded

Next ==
    \/ etype = "payment" /\ \E r \in ListReqs : getPayments(r)
    \/ etype = "payment" /\ \E r \in DetailReqs : getPayment(r)
    \/ etype = "payment" /\ \E r \in CreateReqs : createPayment(r)
    \/ etype = "payment" /\ \E r \in SubReqs("PATCH", "status") : updatePaymentStatus(r)
    \/ etype = "maintenance" /\ \E r \in ListReqs : getMaintenanceTasks(r)
    \/ etype = "maintenance" /\ \E r \in DetailReqs : getMaintenanceTask(r)
    \/ etype = "maintenance" /\ \E r \in CreateReqs : createMaintenanceTask(r)
    \/ etype = "maintenance" /\ \E r \in SubReqs("PATCH", "status") : updateMaintenanceStatus(r)
    \/ etype = "announcement" /\ \E r \in ListReqs : getAnnouncements(r)
    \/ etype = "announcement" /\ \E r \in DetailReqs : getAnnouncement(r)
    \/ etype = "announcement" /\ \E r \in CreateReqs : createAnnouncement(r)
    \/ etype = "announcement" /\ \E r \in ItemReqs("PUT") : updateAnnouncement(r)
    \/ etype = "announcement" /\ \E r \in ItemReqs("DELETE") : deleteAnnouncement(r)
    \/ etype = "complaint" /\ \E r \in ListReqs : getComplaints(r)
    \/ etype = "complaint" /\ \E r \in DetailReqs : getComplaint(r)
    \/ etype = "complaint" /\ \E r \in CreateReqs : createComplaint(r)
    \/ etype = "complaint" /\ \E r \in SubReqs("PATCH", "status") : updateComplaintStatus(r)
    \/ etype = "complaint" /\ \E r \in SubReqs("POST", "comments") : addComment(r)
    \/ etype = "complaint" /\ \E r \in SubReqs("POST", "feedback") : submitFeedback(r)
    \/ etype = "user" /\ \E r \in ListReqs : getUsers(r)
    \/ etype = "user" /\ \E r \in DetailReqs : getUser(r)
    \/ etype = "user" /\ \E r \in StatsReqs(CacheFaults) : getUserStats(r)
    \/ etype = "user" /\ \E r \in CreateReqs : createUser(r)
    \/ etype = "user" /\ \E r \in ItemReqs("PUT") : updateUser(r)
    \/ etype = "user" /\ \E r \in ItemReqs("DELETE") : deleteUser(r)
    \/ etype = "user" /\ \E r \in SubReqs("PATCH", "preferences") : updateUserPreferences(r)
    \/ etype = "user" /\ \E a \in AuthReqs : register(a)
    \/ etype = "user" /\ \E a \in AuthReqs : login(a)
    \/ etype = "property" /\ \E r \in ListReqs : getProperties(r)
    \/ etype = "property" /\ \E r \in DetailReqs : getProperty(r)
    \/ etype = "property" /\ \E r \in DetailReqs : searchProperties(r)
    \/ etype = "property" /\ \E r \in CreateReqs : createProperty(r)
    \/ etype = "property" /\ \E r \in ItemReqs("PUT") : updateProperty(r)
    \/ etype = "property" /\ \E r \in ItemReqs("DELETE") : deleteProperty(r)
    \/ \E r \in ItemReqs("DELETE") : notFound(r)
    \/ \E key \in DOMAIN cache : Expire(key)

Spec == Init /\ [][Next]_vars


\* ----------------------------------------------------------------- paging
\* The list and search endpoints over collections of up to MaxDocs
\* documents, for every page and limit of the query string.  The requests
\* reach the query engine: the cache store is unreachable.
PageIds == {ToString(i) : i \in 1..MaxDocs}

PageDoc(res, id, k, f) ==
    IF IdOrd(id) > k THEN NoDoc
    ELSE [NewDoc(res, id, f[IdOrd(id)][1], IF res = "user" THEN "resident" ELSE "", FALSE)
             EXCEPT !.isActive = f[IdOrd(id)][2]]

PageColl(res, k, f) ==
    [id \in (IF res = "user" THEN SeedUsers ELSE {}) \cup PageIds |->
        IF id \in SeedUsers THEN SeedUser(id) ELSE PageDoc(res, id, k, f)]

PageStores(res) ==
    {PageColl(res, k, f) : k \in 0..MaxDocs, f \in [1..MaxDocs -> Tenants \X BOOLEAN]}

PageQueries == {Query(pg, lim, "") : pg \in ParamValues, lim \in ParamValues}
PageReqs(path) == Reqs("GET", {path}, PageQueries, SeedTokens, {<<"none", CacheDown>>})

InitPage ==
    /\ etype \in Resources
    /\ popStr \in {"id", "inspect"}
    /\ nestedGet \in NestedGets(etype)
    /\ \E coll \in PageStores(etype) :
          db = [c \in Resources |->
                   IF c = etype THEN coll
                   ELSE [id \in CollIds(c) |-> IF c = "user" THEN SeedUser(id) ELSE NoDoc]]
    /\ cache = [k \in {} |-> NoBody]
    /\ flight = Grounded

NextPage ==
    \/ etype = "payment" /\ \E r \in PageReqs(<<>>) : getPayments(r)
    \/ etype = "maintenance" /\ \E r \in PageReqs(<<>>) : getMaintenanceTasks(r)
    \/ etype = "complaint" /\ \E r \in PageReqs(<<>>) : getComplaints(r)
    \/ etype = "announcement" /\ \E r \in PageReqs(<<>>) : getAnnouncements(r)
    \/ etype = "user" /\ \E r \in PageReqs(<<>>) : getUsers(r)
    \/ etype = "property" /\ \E r \in PageReqs(<<>>) : getProperties(r)
    \/ etype = "property" /\ \E r \in PageReqs(<<"search">>) : searchProperties(r)

SpecPage == InitPage /\ [][NextPage]_vars

\* --------------------------------------------------------------- schedules
\* The create and update endpoints of maintenance and announcement, for
\* every schedule a request body can carry.
FormDates == {Date(n) : n \in 0..MaxDate} \cup {OddDate, NoDate}

Forms ==
    {Form(sd, ed, ir, rc) : sd \in FormDates, ed \in FormDates,
                            ir \in {"absent", "true", "false"},
                            rc \in {"absent", "weekly", "quarterly"}}

FormReqs(method, paths) ==
    {[r EXCEPT !.form = f] :
        r \in Reqs(method, paths, {NoQuery}, SeedTokens, {<<"none", NoCacheFault>>}), f \in Forms}

InitForm ==
    /\ etype \in {"maintenance", "announcement"}
    /\ popStr \in {"id", "inspect"}
    /\ nestedGet \in NestedGets(etype)
    /\ db = [c \in Resources |->
                [id \in CollIds(c) |-> IF c = "user" THEN SeedUser(id) ELSE NoDoc]]
    /\ cache = [k \in {} |-> NoBody]
    /\ flight = Grounded

NextForm ==
    \/ etype = "maintenance" /\ \E r \in FormReqs("POST", {<<>>}) : createMaintenanceTask(r)
    \/ etype = "maintenance" /\ \E r \in SubReqs("PATCH", "status") : updateMaintenanceStatus(r)
    \/ etype = "announcement" /\ \E r \in FormReqs("POST", {<<>>}) : createAnnouncement(r)
    \/ etype = "announcement" /\ \E r \in FormReqs("PUT", ItemPaths) : updateAnnouncement(r)

SpecForm == InitForm /\ [][NextForm]_vars

\* ------------------------------------------------------------- statistics
\* Stores of up to MaxDocs documents, each with a tenant, active or not, and
\* one of two labels.
StatsLabels(res) ==
    IF res = "user" THEN {"resident", "staff"} ELSE {"scheduled", "completed"}

StatsDoc(res, id, k, f) ==
    IF IdOrd(id) > k THEN NoDoc
    ELSE [NewDoc(res, id, f[IdOrd(id)][1], f[IdOrd(id)][3], FALSE)
             EXCEPT !.isActive = f[IdOrd(id)][2],
                    !.role = IF res = "user" THEN f[IdOrd(id)][3] ELSE "",
                    !.status = IF res = "user" THEN "" ELSE f[IdOrd(id)][3]]

StatsStores(res) ==
    {[id \in (IF res = "user" THEN SeedUsers ELSE {}) \cup PageIds |->
         IF id \in SeedUsers THEN SeedUser(id) ELSE StatsDoc(res, id, k, f)] :
        k \in 0..MaxDocs,
        f \in [1..MaxDocs -> Tenants \X BOOLEAN \X StatsLabels(res)]}

InitStats ==
    /\ etype \in {"maintenance", "user"}
    /\ popStr \in {"id", "inspect"}
    /\ nestedGet \in NestedGets(etype)
    /\ \E coll \in StatsStores(etype) :
          db = [c \in Resources |->
                   IF c = etype THEN coll
                   ELSE [id \in CollIds(c) |-> IF c = "user" THEN SeedUser(id) ELSE NoDoc]]
    /\ cache = [k \in {} |-> NoBody]
    /\ flight = Grounded

\* The route of a handler as its router declares it.
RouteOf(handler) ==
    LET routes == Routes(etype)
    IN  routes[CHOOSE i \in DOMAIN routes : routes[i].handler = handler]

\* getMaintenanceStats run as its route declares it. (Through the router
\* GET /stats is matched by /:id first and answered by getMaintenanceTask.)
getMaintenanceStats(r) ==
    /\ Commit(Routed(RouteOf("getMaintenanceStats"), db, cache, r))
    /\ UNCHANGED <<etype, popStr, nestedGet, flight>>

NextStats ==
    \/ etype = "maintenance" /\ \E r \in StatsReqs(CacheFaults) : getMaintenanceStats(r)
    \/ etype = "user" /\ \E r \in StatsReqs(CacheFaults) : getUserStats(r)

SpecStats == InitStats /\ [][NextStats]_vars

\* ----------------------------------------------- interleavings: feedback
\* submitFeedback, one step per await: findById and the checks on the loaded
\* document; save() of the modified path; the rest and the response.
With(p, f) == [flight EXCEPT ![p] = f]

submitFeedbackLoad(p, r) ==
    /\ flight[p].pc = "idle"
    /\ LET x == Run(db, cache, r)
       IN  flight' = With(p, IF x.out.status = 200
                             THEN Flight("loaded", r, db[etype][r.segs[1]], 0, FALSE)
                             ELSE Flight("done", r, NoDoc, x.out.status, FALSE))
    /\ UNCHANGED <<etype, popStr, nestedGet, db, cache>>

\* save() writes the paths this invocation modified: $set { feedback }.
submitFeedbackSave(p) ==
    /\ flight[p].pc = "loaded"
    /\ LET seg == flight[p].r.segs[1]
       IN  /\ db' = [db EXCEPT ![etype][seg].feedback = TRUE]
           /\ flight' = With(p, [flight[p] EXCEPT !.pc = "saved",
                                                  !.lost = db[etype][seg].feedback])
    /\ UNCHANGED <<etype, popStr, nestedGet, cache>>

submitFeedbackRespond(p) ==
    /\ flight[p].pc = "saved"
    /\ cache' = Invalidate(cache, "complaint", flight[p].r.segs[1], flight[p].r.cf)
    /\ flight' = With(p, [flight[p] EXCEPT !.pc = "done", !.status = 200])
    /\ UNCHANGED <<etype, popStr, nestedGet, db>>

FeedbackReqs ==
    Reqs("POST", {<<"1", "feedback">>}, {NoQuery}, SeedTokens, {<<"none", NoCacheFault>>})

InitFeedback ==
    /\ etype = "complaint"
    /\ popStr \in {"id", "inspect"}
    /\ nestedGet \in NestedGets(etype)
    /\ \E t \in Tenants, st \in {"pending", "resolved"} :
          db = [c \in Resources |->
                   [id \in CollIds(c) |->
                       CASE c = "user" -> SeedUser(id)
                         [] c = "complaint" /\ id = "1" ->
                              [NewDoc("complaint", "1", t, "", FALSE) EXCEPT !.status = st]
                         [] OTHER -> NoDoc]]
    /\ cache = [k \in {} |-> NoBody]
    /\ flight = Grounded

NextFeedback ==
    \/ \E p \in Procs, r \in FeedbackReqs : submitFeedbackLoad(p, r)
    \/ \E p \in Procs : submitFeedbackSave(p)
    \/ \E p \in Procs : submitFeedbackRespond(p)

SpecFeedback == InitFeedback /\ [][NextFeedback]_vars

\* -------------------------------------------------- interleavings: views
\* getAnnouncement, one step per await: getCache, then findById and the
\* checks on the loaded document; save() of the pushed view; setCache and the
\* response.
getAnnouncementLoad(p, r) ==
    /\ flight[p].pc = "idle"
    /\ LET x == Run(db, cache, r)
       IN  flight' = With(p, IF x.out.status = 200 /\ ~x.out.fromCache
                             THEN Flight("loaded", r, db[etype][r.segs[1]], 0, FALSE)
                             ELSE Flight("done", r, NoDoc, x.out.status, FALSE))
    /\ UNCHANGED <<etype, popStr, nestedGet, db, cache>>

Viewer(p) == FindUser(db["user"], flight[p].r.tok.uid)

\* if (!hasViewed) { views.push(...); await announcement.save() }: save()
\* sends the push this invocation made to its copy, $push { views }.
getAnnouncementSave(p) ==
    /\ flight[p].pc = "loaded"
    /\ db' = IF hasViewed(flight[p].snap.views, Viewer(p)) THEN db
             ELSE [db EXCEPT ![etype][flight[p].r.segs[1]].views =
                                 Append(@, Viewer(p).id)]
    /\ flight' = With(p, [flight[p] EXCEPT !.pc = "saved"])
    /\ UNCHANGED <<etype, popStr, nestedGet, cache>>

getAnnouncementRespond(p) ==
    /\ flight[p].pc = "saved"
    /\ cache' = setCache(cache, DetailKey("announcement", flight[p].r.segs[1]),
                         DetailBody(Viewed(flight[p].snap, Viewer(p))), flight[p].r.cf)
    /\ flight' = With(p, [flight[p] EXCEPT !.pc = "done", !.status = 200])
    /\ UNCHANGED <<etype, popStr, nestedGet, db>>

ViewReqs == Reqs("GET", {<<"1">>}, {NoQuery}, SeedTokens, CacheFaults)

InitViews ==
    /\ etype = "announcement"
    /\ popStr \in {"id", "inspect"}
    /\ nestedGet \in NestedGets(etype)
    /\ \E t \in Tenants :
          db = [c \in Resources |->
                   [id \in CollIds(c) |->
                       CASE c = "user" -> SeedUser(id)
                         [] c = "announcement" /\ id = "1" ->
                              NewDoc("announcement", "1", t, "", FALSE)
                         [] OTHER -> NoDoc]]
    /\ cache = [k \in {} |-> NoBody]
    /\ flight = Grounded

NextViews ==
    \/ \E p \in Procs, r \in ViewReqs : getAnnouncementLoad(p, r)
    \/ \E p \in Procs : getAnnouncementSave(p)
    \/ \E p \in Procs : getAnnouncementRespond(p)

SpecViews == InitViews /\ [][NextViews]_vars

\* ------------------------------------------------------------ status flow
\* Creates whose body carries a status, and status updates to every value.
BodyStatuses(res) == StatusEnum(res) \cup {"", "bogus"}

CreateWithStatusReqs ==
    {[r EXCEPT !.st = st] :
        r \in Reqs("POST", {<<>>}, {NoQuery}, SeedTokens, {<<"none", NoCacheFault>>}),
        st \in BodyStatuses(etype)}

StatusReqs ==
    {[r EXCEPT !.arg = st] :
        r \in Reqs("PATCH", SubPaths("status"), {NoQuery}, SeedTokens,
                   {<<"none", NoCacheFault>>}),
        st \in StatusEnum(etype) \cup {"bogus"}}

InitStatus ==
    /\ etype \in {"payment", "maintenance", "complaint"}
    /\ popStr \in {"id", "inspect"}
    /\ nestedGet \in NestedGets(etype)
    /\ db = [c \in Resources |->
                [id \in CollIds(c) |-> IF c = "user" THEN SeedUser(id) ELSE NoDoc]]
    /\ cache = [k \in {} |-> NoBody]
    /\ flight = Grounded

NextStatus ==
    \/ etype = "payment" /\ \E r \in CreateWithStatusReqs : createPayment(r)
    \/ etype = "payment" /\ \E r \in StatusReqs : updatePaymentStatus(r)
    \/ etype = "maintenance" /\ \E r \in CreateWithStatusReqs : createMaintenanceTask(r)
    \/ etype = "maintenance" /\ \E r \in StatusReqs : updateMaintenanceStatus(r)
    \/ etype = "complaint" /\ \E r \in CreateWithStatusReqs : createComplaint(r)
    \/ etype = "complaint" /\ \E r \in StatusReqs : updateComplaintStatus(r)
    \/ etype = "complaint" /\ \E r \in FeedbackReqs : submitFeedback(r)

SpecStatus == InitStatus /\ [][NextStatus]_vars

\* --------------------------------------------- interleavings: list cache
\* getPayments, one step per await: getCache and, on a miss, the store query;
\* then setCache of the response built from that query, and the response.
\* The mutations run between those steps.
getPaymentsLoad(p, r) ==
    /\ flight[p].pc = "idle"
    /\ LET x == Run(db, cache, r)
       IN  flight' = With(p, IF x.out.status = 200 /\ ~x.out.fromCache
                             THEN Flight("loaded", r,
                                         [body |-> x.out.body, coll |-> db[etype]],
                                         0, flight[p].lost)
                             ELSE Flight("done", r, NoDoc, x.out.status, flight[p].lost))
    /\ UNCHANGED <<etype, popStr, nestedGet, db, cache>>

\* lost: the store changed between this invocation's query and its setCache.
getPaymentsRespond(p) ==
    /\ flight[p].pc = "loaded"
    /\ cache' = setCache(cache, ListKey(etype, flight[p].r.q), flight[p].snap.body,
                          flight[p].r.cf)
    /\ flight' = With(p, [flight[p] EXCEPT !.pc = "done", !.status = 200,
                                           !.lost = @ \/ flight[p].snap.coll # db[etype]])
    /\ UNCHANGED <<etype, popStr, nestedGet, db>>

\* One principal, so that every cached list is a list of its own tenant.
OneToken == {Token("valid", "u1")}
StaleListReqs == Reqs("GET", {<<>>}, {NoQuery}, OneToken, {<<"none", NoCacheFault>>})
StaleCreateReqs == Reqs("POST", {<<>>}, {NoQuery}, OneToken, {<<"none", NoCacheFault>>})
StaleStatusReqs ==
    Reqs("PATCH", SubPaths("status"), {NoQuery}, OneToken, {<<"none", NoCacheFault>>})

InitStale ==
    /\ etype = "payment"
    /\ popStr \in {"id", "inspect"}
    /\ nestedGet \in NestedGets(etype)
    /\ db = [c \in Resources |->
                [id \in CollIds(c) |-> IF c = "user" THEN SeedUser(id) ELSE NoDoc]]
    /\ cache = [k \in {} |-> NoBody]
    /\ flight = Grounded

\* An invocation that has responded makes room for the next request.
Retire(p) ==
    /\ flight[p].pc = "done"
    /\ flight' = With(p, [flight[p] EXCEPT !.pc = "idle"])
    /\ UNCHANGED <<etype, popStr, nestedGet, db, cache>>

NextStale ==
    \/ \E p \in Procs, r \in StaleListReqs : getPaymentsLoad(p, r)
    \/ \E p \in Procs : getPaymentsRespond(p)
    \/ \E p \in Procs : Retire(p)
    \/ \E r \in StaleCreateReqs : createPayment(r)
    \/ \E r \in StaleStatusReqs : updatePaymentStatus(r)

SpecStale == InitStale /\ [][NextStale]_vars

\* ------------------------------------------------------- update bodies
\* Updates whose body names a role: PUT /users/:id { role }.
BodyRoles == {"manager", "admin"}
RoleReqs == {[r EXCEPT !.arg = role] : r \in {q \in ItemReqs("PUT") : q.arg = ""},
                                       role \in BodyRoles}
UpdateReqs == ItemReqs("PUT") \cup (IF etype = "user" THEN RoleReqs ELSE {})

InitFrame ==
    /\ etype \in {"user", "announcement", "property"}
    /\ popStr \in {"id", "inspect"}
    /\ nestedGet \in NestedGets(etype)
    /\ db = [c \in Resources |->
                [id \in CollIds(c) |-> IF c = "user" THEN SeedUser(id) ELSE NoDoc]]
    /\ cache = [k \in {} |-> NoBody]
    /\ flight = Grounded

NextFrame ==
    \/ etype = "user" /\ \E r \in CreateReqs : createUser(r)
    \/ etype = "user" /\ \E r \in UpdateReqs : updateUser(r)
    \/ etype = "user" /\ \E r \in SubReqs("PATCH", "preferences") : updateUserPreferences(r)
    \/ etype = "announcement" /\ \E r \in CreateReqs : createAnnouncement(r)
    \/ etype = "announcement" /\ \E r \in UpdateReqs : updateAnnouncement(r)
    \/ etype = "property" /\ \E r \in CreateReqs : createProperty(r)
    \/ etype = "property" /\ \E r \in UpdateReqs : updateProperty(r)
    \/ etype = "user" /\ \E r \in DetailReqs : getUser(r)
    \/ etype = "user" /\ \E r \in ItemReqs("DELETE") : deleteUser(r)
    \/ etype = "announcement" /\ \E r \in DetailReqs : getAnnouncement(r)
    \/ etype = "announcement" /\ \E r \in ItemReqs("DELETE") : deleteAnnouncement(r)
    \/ etype = "property" /\ \E r \in DetailReqs : getProperty(r)
    \/ etype = "property" /\ \E r \in ItemReqs("DELETE") : deleteProperty(r)

SpecFrame == InitFrame /\ [][NextFrame]_vars

\* ------------------------------------------------------------------ claims
FaultFree == {<<"none", NoCacheFault>>}
EmptyCache == [k \in {} |-> NoBody]

\* The entity a by-id request names and the principal its token resolves to.
Target(d, r) ==
    IF Len(r.segs) > 0 /\ IsObjectId(d[etype], r.segs[1]) THEN d[etype][r.segs[1]] ELSE NoDoc
Principal(d, r) == IF r.tok.kind = "valid" THEN FindUser(d["user"], r.tok.uid) ELSE NoDoc

CrossTenant(d, r) ==
    /\ Target(d, r) # NoDoc
    /\ Principal(d, r) # NoDoc
    /\ Target(d, r).tenant # Principal(d, r).tenant

Handles(r) == Dispatch(etype, r.method, r.segs).handler

DetailReaders ==
    {"getPayment", "getMaintenanceTask", "getComplaint", "getAnnouncement", "getUser"}
ListReaders ==
    {"getPayments", "getMaintenanceTasks", "getComplaints", "getAnnouncements",
     "getUsers", "getProperties"}
ByIdMutators ==
    {"updatePaymentStatus", "updateMaintenanceStatus", "updateComplaintStatus",
     "addComment", "submitFeedback", "updateAnnouncement", "deleteAnnouncement",
     "updateUser", "deleteUser", "updateProperty", "deleteProperty"}

ByIdMutations ==
    Reqs("PUT", ItemPaths, {NoQuery}, GoodTokens, FaultFree)
        \cup Reqs("DELETE", ItemPaths, {NoQuery}, GoodTokens, FaultFree)
        \cup Reqs("PATCH", SubPaths("status"), {NoQuery}, GoodTokens, FaultFree)
        \cup Reqs("POST", SubPaths("comments"), {NoQuery}, GoodTokens, FaultFree)
        \cup Reqs("POST", SubPaths("feedback"), {NoQuery}, GoodTokens, FaultFree)

C2_CrossTenantMutationForbidden ==
    \A r \in ByIdMutations :
        (Handles(r) \in ByIdMutators /\ r.valid /\ CrossTenant(db, r))
            => /\ Run(db, cache, r).out.status = 403
               /\ DbAfter(db, Run(db, cache, r)) = db
               /\ Run(db, cache, r).out.cache = cache

\* C3: every entity in a list response belongs to the tenant of the
\* principal that receives it, for every `tenant` filter in the query
\* string and every cache state.
C3_ListOnlyOwnTenant ==
    \A r \in Reqs("GET", {<<>>}, Queries, GoodTokens, FaultFree) :
        (Handles(r) \in ListReaders /\ Principal(db, r) # NoDoc
            /\ Run(db, cache, r).out.status = 200)
            => \A i \in DOMAIN Run(db, cache, r).out.body.data :
                  Run(db, cache, r).out.body.data[i].tenant = Principal(db, r).tenant


ReadHandlers == ListReaders \cup DetailReaders \cup {"getProperty", "searchProperties"}

Reads(toks, faults) ==
    {r \in Reqs("GET", {<<>>} \cup ItemPaths, {NoQuery}, toks, faults) :
        Handles(r) \in ReadHandlers}

Mutations ==
    {m \in ByIdMutations \cup Reqs("POST", {<<>>}, {NoQuery}, GoodTokens, FaultFree)
            \cup Reqs("PATCH", SubPaths("preferences"), {NoQuery}, GoodTokens, FaultFree) :
        InBounds(db, m)}

\* On store d and cache c, every list, search and detail read returns what
\* the handler computes from store d.
ReadsFresh(d, c) ==
    \A r \in Reads(SeedTokens, FaultFree) :
        Run(d, c, r).out.body = Run(d, EmptyCache, r).out.body

PersistedThenFresh(x) == DbAfter(db, x) # db => ReadsFresh(DbAfter(db, x), x.out.cache)

\* C4: once a mutation handler (create, update, status change, delete,
\* comment, feedback, preference patch) has persisted a change, the next
\* list, search or detail read on the type returns data computed from the
\* post-mutation store.
C4_ReadAfterWrite == \A m \in Mutations : PersistedThenFresh(Run(db, cache, m))

\* The same request served again right after its first serving x.
Again(x, r) == Run(DbAfter(db, x), x.out.cache, r)

HitSame(a, b) ==
    /\ b.out.fromCache
    /\ b.out.status = a.out.status
    /\ b.out.body = a.out.body
    /\ ~b.out.read
    /\ b.out.coll = a.out.coll

ListOrDetail(toks, faults) ==
    {r \in Reads(toks, faults) : Handles(r) \in ListReaders \cup DetailReaders \cup {"getProperty"}}

\* C5 as written: a list or detail request issued twice with no mutation and
\* no expiry in between is answered the second time from the cache, with the
\* same response, without a store query, count or write.
C5_SecondReadFromCache ==
    \A r \in ListOrDetail(Tokens, FaultFree) :
        HitSame(Run(db, cache, r), Again(Run(db, cache, r), r))

\* C5 amended: the same, when the first request was answered 200 and the
\* cache store was reachable while both were served.
C5_SecondReadFromCacheAfterSuccess ==
    \A r \in ListOrDetail(Tokens, {f \in Faults : f[2] = NoCacheFault}) :
        Run(db, cache, r).out.status = 200
            => HitSame(Run(db, cache, r), Again(Run(db, cache, r), r))

\* C5 witness: a detail read was cached earlier, and the same read is served
\* its entity from the cache.
C5_Witness ==
    \E r \in ListOrDetail(GoodTokens, FaultFree) :
        /\ Run(db, cache, r).out.fromCache
        /\ Run(db, cache, r).out.body.kind = "detail"
        /\ HitSame(Run(db, cache, r), Again(Run(db, cache, r), r))

\* The ids of the entities a response carries.
ItemIds(body) == {body.data[i].id : i \in DOMAIN body.data}

\* C6: a response with the cache present equals the response the same handler
\* gives with the cache absent, up to staleness within the TTL.  Stated for
\* the reads of payment, maintenance and complaint: there an entity, once
\* created, stays in the store and keeps its tenant, so every store state
\* within the TTL gives the principal the current status and no entity that
\* the current store does not give it.
C6_CacheTransparent ==
    etype \in {"payment", "maintenance", "complaint"}
        => \A r \in Reads(SeedTokens, FaultFree) :
              /\ Run(db, cache, r).out.status = Run(db, EmptyCache, r).out.status
              /\ ItemIds(Run(db, cache, r).out.body)
                    \subseteq ItemIds(Run(db, EmptyCache, r).out.body)


\* Every request shape the routers are probed with.
AnyReqs(toks, faults) ==
    Reqs("GET", {<<>>} \cup ItemPaths, {NoQuery}, toks, faults)
        \cup Reqs("POST", {<<>>}, {NoQuery}, toks, faults)
        \cup Reqs("PUT", ItemPaths, {NoQuery}, toks, faults)
        \cup Reqs("DELETE", ItemPaths, {NoQuery}, toks, faults)
        \cup Reqs("PATCH", SubPaths("status") \cup SubPaths("preferences"),
                  {NoQuery}, toks, faults)
        \cup Reqs("POST", SubPaths("comments") \cup SubPaths("feedback"),
                  {NoQuery}, toks, faults)

\* The routes declared with authorize(roles) whose method and path the
\* request matches, and whose roles leave the principal out.
RefusingRoutes(r) ==
    {i \in 1..Len(Routes(etype)) :
        /\ RouteMatches(Routes(etype)[i], r.method, r.segs)
        /\ Routes(etype)[i].roles # {}
        /\ Principal(db, r).role \notin Routes(etype)[i].roles}

Untouched(x) == DbAfter(db, x) = db /\ x.out.cache = cache

RefusedByRole(x) ==
    /\ x.out.status = 403
    /\ x.ran \cap {"upload", "validate", "handler"} = {}
    /\ ~x.out.mailed
    /\ Untouched(x)

\* C9: a request to a route declared with authorize(roles), from an
\* authenticated principal whose role is not in roles, is answered 403, and
\* neither upload processing, validator, handler, notification, store write
\* nor cache deletion runs for it.
C9_RoleRefusedBeforeEffects ==
    \A r \in AnyReqs(GoodTokens, FaultFree) :
        (Principal(db, r) # NoDoc /\ RefusingRoutes(r) # {})
            => RefusedByRole(Run(db, cache, r))

GateRefuses(x) == x.out.status = 401 /\ x.ran = {"protect"} /\ Untouched(x)

\* C10: a request without a token, or with a malformed, expired or wrongly
\* signed one, is answered 401 and its handler does not run; and 401 is
\* answered for those requests only.
C10_TokenGate ==
    \A r \in AnyReqs(Tokens, Faults) :
        /\ r.tok \in BadTokens => GateRefuses(Run(db, cache, r))
        /\ Run(db, cache, r).out.status = 401 => r.tok \in BadTokens


PageProbes == PageReqs(<<>>) \cup (IF etype = "property" THEN PageReqs(<<"search">>) ELSE {})

\* ceil(total / limit) for a positive limit, as an integer.
CeilOf(total, limit) == (total + limit - 1) \div limit

WellPaged(body) ==
    /\ body.pagination.limit.k = "num"
    /\ body.pagination.limit.v > 0
    /\ body.pagination.totalPages.k = "num"
    /\ body.pagination.totalPages.v >= 0
    /\ body.pagination.totalPages.v = CeilOf(body.pagination.total, body.pagination.limit.v)
    /\ Len(body.data) <= body.pagination.limit.v

\* C7: whatever page and limit the query string carries (absent, 0,
\* negative, non-numeric), a list response has totalPages =
\* ceil(total / limit), a finite non-negative integer, and at most limit items.
C7_PaginationMetadata ==
    \A r \in PageProbes :
        Run(db, cache, r).out.status = 200 => WellPaged(Run(db, cache, r).out.body)

BadPage(pg) == pg.kind = "text" \/ (pg.kind = "int" /\ pg.v < 1)
BadLimit(lim) == lim.kind = "text" \/ (lim.kind = "int" /\ lim.v < 1)

\* The query with every bad page or limit replaced by an absent one, for
\* which the engine takes its default.
Coerced(q) ==
    Query(IF BadPage(q.page) THEN Absent ELSE q.page,
          IF BadLimit(q.limit) THEN Absent ELSE q.limit, q.tenant)

\* C8: a list request whose page is below 1, or whose limit is below 1 or
\* not a number, is answered 200 with the items and totals of the request
\* that carries the defaults instead, never with an error.
C8_BadPagingCoerced ==
    \A r \in PageProbes :
        (BadPage(r.q.page) \/ BadLimit(r.q.limit))
            => /\ Run(db, cache, r).out.status = 200
               /\ Run(db, cache, r).out.body.data
                     = Run(db, cache, [r EXCEPT !.q = Coerced(r.q)]).out.body.data
               /\ Run(db, cache, r).out.body.pagination.totalPages
                     = Run(db, cache, [r EXCEPT !.q = Coerced(r.q)]).out.body.pagination.totalPages

\* ------------------------------------------------------- claims C11 - C20
\* The create requests a router is probed with, within the bounds.
CreateProbes ==
    {r \in Reqs("POST", {<<>>}, {NoQuery}, GoodTokens, Faults) : InBounds(db, r)}

\* The ids whose stored document a served request x changed.
Persisted(x) == {id \in DOMAIN db[etype] : x.out.coll[id] # db[etype][id]}

TenantOfPrincipal(r, x) ==
    \A id \in Persisted(x) : x.out.coll[id].tenant = Principal(db, r).tenant

\* C11: every entity a create handler persists carries the tenant of the
\* acting principal, whatever tenant value the request body carries.
C11_TenantInjectedOnCreate ==
    \A r \in CreateProbes :
        Principal(db, r) # NoDoc => TenantOfPrincipal(r, Run(db, cache, r))

DeleteHandlers == {"deleteUser", "deleteAnnouncement", "deleteProperty"}

DeleteProbes ==
    {r \in Reqs("DELETE", ItemPaths, {NoQuery}, GoodTokens, Faults) :
        Handles(r) \in DeleteHandlers}

\* After the served delete x of r: the entity is kept, inactive.
KeptInactive(r, x) ==
    /\ IsObjectId(x.out.coll, r.segs[1])
    /\ x.out.coll[r.segs[1]] # NoDoc
    /\ ~x.out.coll[r.segs[1]].isActive

\* After the served delete x of r: no list computed from the store, for any
\* principal and without a filter on the active flag, carries the entity.
NotListed(r, x) ==
    \A lr \in Reqs("GET", {<<>>}, {NoQuery}, SeedTokens, FaultFree) :
        r.segs[1] \notin ItemIds(Run(DbAfter(db, x), EmptyCache, lr).out.body)

SoftDeleted(r, x) == x.out.status = 200 => KeptInactive(r, x) /\ NotListed(r, x)

\* C12: after a delete handler succeeds the entity is still in the store
\* with its active flag false, and no later list request that does not
\* filter on the active flag, recomputed from the store, returns it.
C12_SoftDeleteHidden == \A r \in DeleteProbes : SoftDeleted(r, Run(db, cache, r))

\* The submitFeedback requests of a resident of the complaint's tenant that
\* reach the handler's precondition checks (the store answers).
FeedbackProbes ==
    {r \in Reqs("POST", SubPaths("feedback"), {NoQuery}, GoodTokens, CacheFaults) :
        /\ Handles(r) = "submitFeedback"
        /\ Target(db, r) # NoDoc
        /\ Principal(db, r) # NoDoc
        /\ Principal(db, r).role = "resident"
        /\ ~CrossTenant(db, r)}

Rejected400(x) == x.out.status = 400 /\ Untouched(x) /\ ~x.out.mailed

\* C13: submitFeedback on a complaint whose status is not 'resolved', and on
\* a complaint that already carries feedback, is answered 400, and the
\* complaint, the cache and the notification log are unchanged.
C13_FeedbackPreconditions ==
    \A r \in FeedbackProbes :
        (Target(db, r).status # "resolved" \/ Target(db, r).feedback)
            => Rejected400(Run(db, cache, r))

\* C13 witness: a resolved complaint carries feedback and a second
\* submitFeedback on it is answered 400.
C13_Witness ==
    \E r \in FeedbackProbes :
        /\ Target(db, r).status = "resolved"
        /\ Target(db, r).feedback
        /\ Rejected400(Run(db, cache, r))

\* The schedule requests that reach the validator of their route: the
\* principal exists and has a role of the route.
AdmittedForms(method, paths) ==
    {r \in FormReqs(method, paths) :
        /\ Principal(db, r) # NoDoc
        /\ Principal(db, r).role \in Dispatch(etype, r.method, r.segs).roles}

EndsAfterStart(form) ==
    /\ form.startDate.k = "date"
    /\ form.endDate.k = "date"
    /\ form.endDate.v > form.startDate.v

RecurrenceMatches(form) == (form.recurrence # "absent") <=> (form.isRecurring = "true")

ScheduleProbes ==
    AdmittedForms("POST", {<<>>})
        \cup (IF etype = "announcement" THEN AdmittedForms("PUT", ItemPaths) ELSE {})

\* C15: a Maintenance or Announcement create/update request whose schedule
\* has isRecurring true and no recurrence, or a recurrence with isRecurring
\* false or absent, is answered 400.
C15_RecurrenceRule ==
    \A r \in ScheduleProbes :
        ~RecurrenceMatches(r.form) => Run(db, cache, r).out.status = 400

\* Every way some cache operation can throw during one request.
CacheFailures == (SUBSET CacheDown) \ {NoCacheFault}

\* The same request as r with the cache operations of cf throwing.
WithCacheFailure(r, cf) == [r EXCEPT !.cf = cf]

\* What the request is compared with: for a read whose getCache throws, the
\* same read on a cache that misses; otherwise the same request on the same
\* cache with every cache operation working.
Baseline(r, cf, working, missing) ==
    IF r.method = "GET" /\ "get" \in cf THEN missing ELSE working

SameAnswer(x, y) ==
    /\ x.out.status = y.out.status
    /\ x.out.body = y.out.body
    /\ x.out.coll = y.out.coll
    /\ x.out.mailed = y.out.mailed

\* C16: when a cache get, set or delete fails during a request, a read
\* handler answers what it answers on a cache miss, and a mutation handler
\* answers and persists what it does when the cache works.
C16_CacheFailureTolerated ==
    \A r \in AnyReqs(GoodTokens, FaultFree) :
        LET working == Run(db, cache, r)
            missing == Run(db, EmptyCache, r)
        IN  \A cf \in CacheFailures :
                SameAnswer(Run(db, cache, WithCacheFailure(r, cf)),
                           Baseline(r, cf, working, missing))

\* A read whose key is cached is answered 200 from the store, not from the
\* cache, while getCache throws; and a mutation persists while deleteCache
\* throws.
C16_Witness ==
    /\ \E r \in Reads(GoodTokens, FaultFree) :
        /\ Run(db, cache, r).out.fromCache
        /\ LET x == Run(db, cache, WithCacheFailure(r, {"get"}))
           IN  x.out.status = 200 /\ ~x.out.fromCache
    /\ \E m \in Mutations :
        LET x == Run(db, cache, WithCacheFailure(m, {"del"}))
        IN  x.out.status \in {200, 201} /\ DbAfter(db, x) # db

\* The create requests whose handler notifies after persisting.
NotifyingCreates ==
    {r \in Reqs("POST", {<<>>}, {NoQuery}, GoodTokens, FaultFree) :
        Handles(r) \in {"createMaintenanceTask", "createAnnouncement"}}

\* A persisted create is answered 201 with the list cache invalidated.
BestEffort(x) ==
    DbAfter(db, x) # db
        => /\ x.out.status = 201
           /\ x.out.cache = deleteCache(cache, Glob(ListNs(etype)), NoCacheFault)

\* C17: a change whose notification fails, by a transport error or by a
\* recipient that cannot be resolved, stays persisted, and its handler still
\* invalidates the caches and answers success.
C17_NotificationBestEffort ==
    \A r \in NotifyingCreates : BestEffort(Run(db, cache, r))

StatusHandlers ==
    {"updatePaymentStatus", "updateComplaintStatus", "updateMaintenanceStatus"}

\* The body of r violates a field rule of its endpoint: a rule of the
\* route's validator, or the status enum of PATCH /:id/status.
ViolatesFieldRule(r) ==
    \/ ~r.valid
    \/ Handles(r) \in StatusHandlers /\ r.arg \notin StatusEnum(etype)

\* The requests that get as far as validation: the principal exists and no
\* route refuses its role.
ReachValidation ==
    {r \in AnyReqs(GoodTokens, FaultFree) :
        Principal(db, r) # NoDoc /\ RefusingRoutes(r) = {}}

\* C18: a request whose body violates a field rule is answered 400 with the
\* error list, and the store, the cache and the notification log stay as
\* they were.
C18_ValidationPrecedesMutation ==
    \A r \in ReachValidation :
        ViolatesFieldRule(r) => Rejected400(Run(db, cache, r))

NodeEnvs == {"development", "production", "test", "unset"}

\* The response x carries the message of the underlying error when the
\* process runs with NODE_ENV = env.
CarriesErrorMessage(x, env) ==
    \/ x.out.error = "always"
    \/ x.out.error = "development" /\ env = "development"

\* C19: outside development mode no 500 response, of a handler or of the
\* error middleware, carries the message or the stack of the error.
C19_ErrorDetailWithheld ==
    \A r \in AnyReqs(GoodTokens, Faults) : \A env \in NodeEnvs \ {"development"} :
        LET x == Run(db, cache, r)
        IN  x.out.status = 500 => ~CarriesErrorMessage(x, env)

\* The entities the statistics of tenant t are over, and those carrying label l.
Counted(t) == {d \in Matching(db[etype], t) : d.isActive}
Carrying(t, l) == {d \in Counted(t) : LabelOf(etype, d) = l}

RECURSIVE SumOf(_, _)
SumOf(f, keys) ==
    IF keys = {} THEN 0
    ELSE LET k == CHOOSE x \in keys : TRUE IN f[k] + SumOf(f, keys \ {k})

\* The distribution of a statistics body gives each label carried by some
\* entity of tenant t its number of entities, and the values sum to the total.
CountsExact(body, t) ==
    /\ DOMAIN body.distribution = {LabelOf(etype, d) : d \in Counted(t)}
    /\ \A l \in DOMAIN body.distribution :
          body.distribution[l] = Cardinality(Carrying(t, l))
    /\ SumOf(body.distribution, DOMAIN body.distribution) = Cardinality(Counted(t))
    /\ body.pagination.total = Cardinality(Counted(t))

\* The statistics requests of the principals the route admits, on an empty
\* cache and a store that answers.
StatsProbes ==
    {r \in StatsReqs(FaultFree) :
        Principal(db, r) # NoDoc /\ Principal(db, r).role \in AdminManager}

StatsHandlerOf(res) == IF res = "user" THEN "getUserStats" ELSE "getMaintenanceStats"

\* C20: each distribution map of a statistics aggregation gives every label
\* exactly the number of entities carrying it, and its values sum to the total.
C20_DistributionCounts ==
    \A r \in StatsProbes :
        LET x == Routed(RouteOf(StatsHandlerOf(etype)), db, EmptyCache, r)
        IN  x.out.status = 200 /\ CountsExact(x.out.body, Principal(db, r).tenant)

\* ------------------------------------------------------- claims C21 - C30
\* The statistics handler each router declares on GET /stats.
StatsHandlerName(res) ==
    CASE res = "payment" -> "getPaymentStats"
      [] res = "maintenance" -> "getMaintenanceStats"
      [] res = "announcement" -> "getAnnouncementStats"
      [] res = "complaint" -> "getComplaintStats"
      [] res = "user" -> "getUserStats"
      [] OTHER -> "getPropertyStats"

StatsGets == Reqs("GET", {<<"stats">>}, {NoQuery}, GoodTokens, FaultFree)

\* C21: GET /stats of payments, maintenance, announcements, complaints and
\* properties is dispatched to the statistics handler of the resource, after
\* the role check of its route, and never to the /:id detail handler.
C21_StatsRouting ==
    \A r \in StatsGets :
        (etype # "user" /\ Principal(db, r) # NoDoc)
            => LET x == Run(db, cache, r)
               IN  /\ x.handler = StatsHandlerName(etype)
                   /\ "authorize" \in x.ran
                   /\ x.handler \notin DetailReaders \cup {"getProperty"}

LiveAuthReqs == {a \in AuthReqs : a.dbf = "none"}
UsersOf(coll) == {d.id : d \in Docs(coll)}

\* C22: registering with an email not in the store and a password of at
\* least 6 characters answers 201 with a token and adds exactly one user; a
\* login with that email and password then answers 200 with a token; a login
\* with a wrong password or an unknown email answers 401 with the message
\* 'Email atau password salah.' and changes nothing.
C22_RegisterThenLogin ==
    \A a \in LiveAuthReqs :
        LET users == db["user"]
            reg == registerBody(users, cache, a)
            log == loginBody(users, cache, a)
            known == findOneByEmail(users, a.email) # NoDoc
        IN  /\ (~known /\ a.password # "12345")
                => /\ reg.status = 201
                   /\ Cardinality(UsersOf(reg.coll) \ UsersOf(users)) = 1
                   /\ UsersOf(users) \subseteq UsersOf(reg.coll)
            /\ (known /\ a.password = "secret1") => log.status = 200
            /\ (~known \/ a.password # "secret1")
                => /\ log.status = 401
                   /\ log.body.kind = "Email atau password salah."
                   /\ log.coll = users

Accepted == {p \in Procs : flight[p].pc = "done" /\ flight[p].status = 200}

ViewsOf(doc, u) == {i \in DOMAIN doc.views : doc.views[i] = u}

C25_TerminalStatusStamped ==
    /\ \A d \in Docs(db[etype]) : d.status = TerminalStatus(etype) => d.stamped
    /\ \A r \in StatusReqs :
          LET x == Run(db, cache, r)
              id == r.segs[1]
          IN  (r.arg # TerminalStatus(etype) /\ IsObjectId(db[etype], id))
                  => x.out.coll[id].stamped = db[etype][id].stamped

\* The documents a request's handler added to the collection.
Created(x) == {id \in DOMAIN db[etype] : db[etype][id] = NoDoc /\ x.out.coll[id] # NoDoc}

\* C26: a complaint that carries feedback has status 'resolved'; no status
\* update moves a complaint out of 'resolved'; and no create request yields a
\* complaint that is already 'resolved'.
C26_ResolvedIsTerminal ==
    etype = "complaint" =>
        /\ \A d \in Docs(db[etype]) : d.feedback => d.status = "resolved"
        /\ \A r \in StatusReqs :
              (IsObjectId(db[etype], r.segs[1]) /\ db[etype][r.segs[1]].status = "resolved")
                  => Run(db, cache, r).out.coll[r.segs[1]].status = "resolved"
        /\ \A r \in CreateWithStatusReqs :
              LET x == Run(db, cache, r)
              IN  \A id \in Created(x) : x.out.coll[id].status # "resolved"

\* A list read started now is answered with what the store holds now.
ListsFresh ==
    \A r \in StaleListReqs :
        Run(db, cache, r).out.body = Run(db, EmptyCache, r).out.body

\* C27: however list reads and a mutation interleave, a list read that starts
\* after the mutation has completed is not answered with data computed from
\* the store as it was before the mutation: no read that queried the store
\* before the mutation writes its result into the cache after the mutation's
\* invalidation.
C27_NoStaleRepopulation ==
    /\ ListsFresh
    /\ \A p \in Procs : ~flight[p].lost

\* The requests of the mutation handlers, with and without faults.
MutationReqs == {r \in AnyReqs(Tokens, Faults) : r.method # "GET"}

\* C28: a mutation answered with a 4xx or 5xx status leaves the store as it
\* was before the request; once a handler has persisted a change it runs to
\* its success status.
C28_ErrorsAtomic ==
    \A r \in MutationReqs :
        Run(db, cache, r).out.status >= 400 => DbAfter(db, Run(db, cache, r)) = db

\* The request got past protect: an authorize check or the handler ran.
Admitted(x) == "authorize" \in x.ran \/ "handler" \in x.ran

\* The principal is a stored user whose active flag is true.
LivePrincipal(user) == user # NoDoc /\ user.isActive

\* C29: every request passed on to an authorize check or to a handler
\* carries a principal that is a stored, active user; a validly signed token
\* whose user is removed or soft-deleted is answered 401 and reaches no
\* handler.
C29_AdmittedPrincipalsLive ==
    \A r \in AnyReqs(GoodTokens, FaultFree) :
        LET x == Run(db, cache, r)
        IN  /\ Admitted(x) => LivePrincipal(Principal(db, r))
            /\ ~LivePrincipal(Principal(db, r)) => x.out.status = 401

\* The order of the roles, lowest first.
RoleRank(role) ==
    CASE role = "admin" -> 3 [] role = "manager" -> 2 [] role = "staff" -> 1 [] OTHER -> 0

\* The requests of the update handlers.
FrameReqs ==
    {r \in UpdateReqs \cup SubReqs("PATCH", "preferences") :
        Handles(r) \in {"updateUser", "updateAnnouncement", "updateProperty",
                        "updateUserPreferences"}}

TenantKept(before, after) ==
    \A id \in DOMAIN before : before[id] # NoDoc => after[id].tenant = before[id].tenant

RoleNotRaised(before, after, user) ==
    \A id \in DOMAIN before :
        (before[id] # NoDoc /\ RoleRank(after[id].role) > RoleRank(before[id].role))
            => user # NoDoc /\ RoleRank(after[id].role) <= RoleRank(user.role)

\* C30: no update handler changes the tenant of an existing entity, and
\* updateUser never raises a user's role above the role of the acting
\* principal, whatever the body carries.
C30_TenantAndRoleFramed ==
    \A r \in FrameReqs :
        LET after == DbAfter(db, Run(db, cache, r))[etype]
        IN  /\ TenantKept(db[etype], after)
            /\ etype = "user" => RoleNotRaised(db[etype], after, Principal(db, r))

====
